---- MODULE Spec2Model ----
(***************************************************************************)
(* fern-obs: the OBS bridge daemon of fern-shell.                           *)
(*                                                                         *)
(* The module models crates/fern-obs: the connection supervisor            *)
(* (Daemon::run, Daemon::run_connected), the reconciler                    *)
(* (ObsClient::sync_state), the state model (StateTracker, ObsState) and   *)
(* the state-file writer (Daemon::write_state), together with the parts of *)
(* the environment they depend on: the remote session, the file system     *)
(* holding the state file, the interrupt signal and the clock.             *)
(***************************************************************************)
EXTENDS Integers, Sequences, FiniteSets, TLC

(***************************************************************************)
(* Program constants.                                                      *)
(***************************************************************************)
\* daemon.rs:20
FAST_RETRY_THRESHOLD == 10
\* daemon.rs:23
SLOW_RETRY_INTERVAL_MS == 60000
\* config.rs:50, default_reconnect_interval()
default_reconnect_interval == 5000
\* daemon.rs:199, perms.set_mode(0o600)
MODE_0600 == 384
\* mode of a file std::fs::write creates under the usual umask 022 (0o644)
MODE_CREATE == 420

(***************************************************************************)
(* Bounds of the model.                                                    *)
(***************************************************************************)
\* largest value the failure counter is followed to
MaxAttempts == 12
\* largest value of the clock, in seconds
MaxNow == 1

(***************************************************************************)
(* Option<T>: None is the empty sequence, Some(v) the sequence <<v>>.      *)
(***************************************************************************)
None == <<>>
Some(v) == <<v>>
IsSome(o) == o # None
Unwrap(o) == o[1]

(***************************************************************************)
(* state.rs: RecordingState, StreamingState, ObsStats, ObsState.           *)
(***************************************************************************)
Digit(d) == <<"0", "1", "2", "3", "4", "5", "6", "7", "8", "9">>[d + 1]

RECURSIVE Decimal(_)
\* the decimal digits of n, as format!("{n}") prints them
Decimal(n) == IF n < 10 THEN Digit(n) ELSE Decimal(n \div 10) \o Digit(n % 10)

\* format!("{n:02}"): at least two digits, zero padded
Pad02(n) == IF n < 10 THEN "0" \o Digit(n) ELSE Decimal(n)

\* format_timecode as it would be if the minutes of the hours form were not
\* reduced modulo the hour
format_timecodeTotalMinutes(secs) ==
    LET hours == secs \div 3600
        minutes == secs \div 60
        seconds == secs % 60
    IN  IF hours > 0
        THEN Pad02(hours) \o ":" \o Pad02(minutes) \o ":" \o Pad02(seconds)
        ELSE Pad02(minutes) \o ":" \o Pad02(seconds)

format_timecode(secs) ==
    LET hours == secs \div 3600
        minutes == (secs % 3600) \div 60
        seconds == secs % 60
    IN  IF hours > 0
        THEN Pad02(hours) \o ":" \o Pad02(minutes) \o ":" \o Pad02(seconds)
        ELSE Pad02(minutes) \o ":" \o Pad02(seconds)

\* RecordingState::idle() = RecordingState::default()
RecordingIdle ==
    [active |-> FALSE, paused |-> FALSE, elapsed_secs |-> 0,
     output_path |-> None, timecode |-> None]

\* StreamingState::idle() = StreamingState::default()
StreamingIdle ==
    [active |-> FALSE, elapsed_secs |-> 0, timecode |-> None,
     bitrate_kbps |-> None, reconnecting |-> FALSE]

\* a percentage missed/total*100, kept exact as the pair <<missed*100, total>>
Percent(missed, total) == <<missed * 100, total>>

calculate_percentages(stats) ==
    LET r == IF stats.render_total_frames > 0
             THEN [stats EXCEPT !.render_drop_percent =
                      Some(Percent(stats.render_missed_frames, stats.render_total_frames))]
             ELSE stats
    IN  IF r.output_total_frames > 0
        THEN [r EXCEPT !.output_drop_percent =
                 Some(Percent(r.output_skipped_frames, r.output_total_frames))]
        ELSE r

\* ObsState::disconnected() = ObsState::default() with connected = false
ObsStateDisconnected ==
    [connected |-> FALSE, recording |-> RecordingIdle, streaming |-> StreamingIdle,
     current_scene |-> None, scenes |-> <<>>, stats |-> None, error |-> None,
     updated_at_secs |-> None]

\* touch as it would be if it set the timestamp only when there is none
touchOnce(state, t) ==
    IF IsSome(state.updated_at_secs) THEN state
    ELSE [state EXCEPT !.updated_at_secs = Some(t)]

\* ObsState::touch at clock value t
touch(state, t) == [state EXCEPT !.updated_at_secs = Some(t)]

(***************************************************************************)
(* state.rs: StateTracker.  A tracker is the serializable state plus the   *)
(* two timer anchors.                                                      *)
(***************************************************************************)
StateTrackerNew ==
    [state |-> ObsStateDisconnected, recording_started |-> None,
     streaming_started |-> None]

set_connected(t) ==
    [t EXCEPT !.state.connected = TRUE, !.state.error = None]

\* set_disconnected as it would be if it replaced the state by
\* ObsState::disconnected() with the error
set_disconnectedToDefault(t, error) ==
    [state |-> [ObsStateDisconnected EXCEPT !.error = error],
     recording_started |-> None,
     streaming_started |-> None]

\* set_disconnected as it would be if it cleared only the connection fields
set_disconnectedFlagOnly(t, error) ==
    [t EXCEPT !.state.connected = FALSE, !.state.error = error]

set_disconnected(t, error) ==
    [t EXCEPT !.state.connected = FALSE,
              !.state.error = error,
              !.state.recording = RecordingIdle,
              !.state.streaming = StreamingIdle,
              !.recording_started = None,
              !.streaming_started = None]

start_recording(t, clock) ==
    [t EXCEPT !.recording_started = Some(clock),
              !.state.recording.active = TRUE,
              !.state.recording.paused = FALSE]

\* stop_recording as it would be if it reset the recording state and left the
\* timer anchor set
stop_recordingKeepsAnchor(t) ==
    [t EXCEPT !.state.recording = RecordingIdle]

stop_recording(t) ==
    [t EXCEPT !.recording_started = None, !.state.recording = RecordingIdle]

pause_recording(t) == [t EXCEPT !.state.recording.paused = TRUE]

resume_recording(t) == [t EXCEPT !.state.recording.paused = FALSE]

start_streaming(t, clock) ==
    [t EXCEPT !.streaming_started = Some(clock), !.state.streaming.active = TRUE]

stop_streaming(t) ==
    [t EXCEPT !.streaming_started = None, !.state.streaming = StreamingIdle]

\* update_elapsed as it would be if it refreshed elapsed_secs and left the
\* timecode as it was
update_elapsedSecondsOnly(t, clock) ==
    LET r == IF IsSome(t.recording_started) /\ ~t.state.recording.paused
             THEN [t EXCEPT
                     !.state.recording.elapsed_secs = clock - Unwrap(t.recording_started)]
             ELSE t
        s == IF IsSome(r.streaming_started)
             THEN [r EXCEPT
                     !.state.streaming.elapsed_secs = clock - Unwrap(r.streaming_started)]
             ELSE r
    IN  [s EXCEPT !.state = touch(s.state, clock)]

update_elapsed(t, clock) ==
    LET r == IF IsSome(t.recording_started) /\ ~t.state.recording.paused
             THEN [t EXCEPT
                     !.state.recording.elapsed_secs = clock - Unwrap(t.recording_started),
                     !.state.recording.timecode =
                         Some(format_timecode(clock - Unwrap(t.recording_started)))]
             ELSE t
        s == IF IsSome(r.streaming_started)
             THEN [r EXCEPT
                     !.state.streaming.elapsed_secs = clock - Unwrap(r.streaming_started),
                     !.state.streaming.timecode =
                         Some(format_timecode(clock - Unwrap(r.streaming_started)))]
             ELSE r
    IN  [s EXCEPT !.state = touch(s.state, clock)]

set_scene(t, scene) == [t EXCEPT !.state.current_scene = Some(scene)]

\* set_scenes as it would be if it extended the list it holds
set_scenesAppend(t, scenes) == [t EXCEPT !.state.scenes = t.state.scenes \o scenes]

set_scenes(t, scenes) == [t EXCEPT !.state.scenes = scenes]

set_stats(t, stats) == [t EXCEPT !.state.stats = Some(calculate_percentages(stats))]

(***************************************************************************)
(* error.rs: Error and its Display.  An error is its variant (kind), the   *)
(* context of an Io error and the message of the underlying failure.       *)
(***************************************************************************)
\* config.rs:38, default_host()
default_host == "localhost"
\* config.rs:42, default_port()
default_port == 4455

\* Error::connection(host, port, message)
ErrorConnection(message) ==
    [kind |-> "Connection", context |-> "", message |-> message]

\* Error::io(context, source)
ErrorIo(context, source) ==
    [kind |-> "Io", context |-> context, message |-> source]

\* Error::Request(message)
ErrorRequest(message) ==
    [kind |-> "Request", context |-> "", message |-> message]

\* impl Display for Error (the #[error(...)] attributes)
to_string(e) ==
    CASE e.kind = "Connection" ->
            "failed to connect to OBS at " \o default_host \o ":"
                \o Decimal(default_port) \o ": " \o e.message
      [] e.kind = "Request" -> "OBS request failed: " \o e.message
      [] e.kind = "Io" -> e.context \o ": " \o e.message

(***************************************************************************)
(* client.rs: the reconciler.  fetched is what the five requests of one    *)
(* sync returned: None for a request that failed, Some(value) otherwise.   *)
(***************************************************************************)
\* ObsClient::get_stats: the raw counters, then the derived percentages
get_stats(raw) ==
    calculate_percentages(
        [cpu_usage |-> raw.cpu_usage,
         memory_mb |-> raw.memory_mb,
         available_disk_mb |-> Some(raw.available_disk_mb),
         active_fps |-> raw.active_fps,
         average_frame_time_ms |-> raw.average_frame_time_ms,
         render_missed_frames |-> raw.render_missed_frames,
         render_total_frames |-> raw.render_total_frames,
         output_skipped_frames |-> raw.output_skipped_frames,
         output_total_frames |-> raw.output_total_frames,
         render_drop_percent |-> None,
         output_drop_percent |-> None])

\* SyncRecording as it would be if the pause flag were copied before the
\* remote's active flag is looked at
SyncRecordingPausedUnguarded(t, fetched, clock) ==
    IF IsSome(fetched)
    THEN LET rec_status == Unwrap(fetched)
             p == IF rec_status.paused
                  THEN [t EXCEPT !.state.recording.paused = TRUE]
                  ELSE t
         IN  IF rec_status.active
             THEN IF ~p.state.recording.active THEN start_recording(p, clock) ELSE p
             ELSE IF p.state.recording.active THEN stop_recording(p) ELSE p
    ELSE t

SyncRecording(t, fetched, clock) ==
    IF IsSome(fetched)
    THEN LET rec_status == Unwrap(fetched)
         IN  IF rec_status.active
             THEN LET p == IF rec_status.paused
                           THEN [t EXCEPT !.state.recording.paused = TRUE]
                           ELSE t
                  IN  IF ~p.state.recording.active THEN start_recording(p, clock) ELSE p
             ELSE IF t.state.recording.active THEN stop_recording(t) ELSE t
    ELSE t

\* SyncStreaming as it would be if start_streaming were called whenever the
\* remote reports an active stream
SyncStreamingAlwaysStart(t, fetched, clock) ==
    IF IsSome(fetched)
    THEN LET stream_status == Unwrap(fetched)
         IN  IF stream_status.active
             THEN [start_streaming(t, clock) EXCEPT
                      !.state.streaming.reconnecting = stream_status.reconnecting]
             ELSE IF t.state.streaming.active THEN stop_streaming(t) ELSE t
    ELSE t

SyncStreaming(t, fetched, clock) ==
    IF IsSome(fetched)
    THEN LET stream_status == Unwrap(fetched)
         IN  IF stream_status.active
             THEN LET s == IF ~t.state.streaming.active THEN start_streaming(t, clock) ELSE t
                  IN  [s EXCEPT !.state.streaming.reconnecting = stream_status.reconnecting]
             ELSE IF t.state.streaming.active THEN stop_streaming(t) ELSE t
    ELSE t

SyncScenes(t, scene, scenes) ==
    LET a == IF IsSome(scene) THEN set_scene(t, Unwrap(scene)) ELSE t
    IN  IF IsSome(scenes) THEN set_scenes(a, Unwrap(scenes)) ELSE a

SyncStats(t, fetched, show_stats) ==
    IF show_stats /\ IsSome(fetched) THEN set_stats(t, get_stats(Unwrap(fetched))) ELSE t

\* sync_state as it would be with `?` on each request: the first request
\* that fails ends the sync with its error
sync_stateAbortOnFailure(t, fetched, clock, show_stats) ==
    LET failed == Some(ErrorRequest("connection closed"))
        t0 == set_connected(t)
        t1 == SyncRecording(t0, fetched.recording, clock)
        t2 == SyncStreaming(t1, fetched.streaming, clock)
        t3 == SyncScenes(t2, fetched.scene, None)
        t4 == SyncScenes(t3, None, fetched.scenes)
        t5 == SyncStats(t4, fetched.stats, show_stats)
    IN  CASE fetched.recording = None -> [tracker |-> t0, result |-> failed]
          [] fetched.streaming = None -> [tracker |-> t1, result |-> failed]
          [] fetched.scene = None -> [tracker |-> t2, result |-> failed]
          [] fetched.scenes = None -> [tracker |-> t3, result |-> failed]
          [] show_stats /\ fetched.stats = None -> [tracker |-> t4, result |-> failed]
          [] OTHER -> [tracker |-> t5, result |-> None]

\* sync_state as it would be without its first line, tracker.set_connected()
sync_stateWithoutSetConnected(t, fetched, clock, show_stats) ==
    LET t1 == SyncRecording(t, fetched.recording, clock)
        t2 == SyncStreaming(t1, fetched.streaming, clock)
        t3 == SyncScenes(t2, fetched.scene, fetched.scenes)
        t4 == SyncStats(t3, fetched.stats, show_stats)
    IN  [tracker |-> t4, result |-> None]

\* ObsClient::sync_state: the tracker after the sync and the Result returned
\* (None is Ok(()), Some(e) is Err(e)).  Every request error is dropped by an
\* `if let Ok(..)`, so the result is Ok(()) whatever was fetched.
sync_state(t, fetched, clock, show_stats) ==
    LET t0 == set_connected(t)
        t1 == SyncRecording(t0, fetched.recording, clock)
        t2 == SyncStreaming(t1, fetched.streaming, clock)
        t3 == SyncScenes(t2, fetched.scene, fetched.scenes)
        t4 == SyncStats(t3, fetched.stats, show_stats)
    IN  [tracker |-> t4, result |-> None]

(***************************************************************************)
(* serde: the JSON object of a value, as the function from the keys that   *)
(* are written to their values.  A field marked skip_serializing_if =      *)
(* "Option::is_none" has no key when it is None.                           *)
(***************************************************************************)
\* SkipNone as it would be without skip_serializing_if: serde writes None as
\* null
SkipNoneAsNull(key, o) == key :> (IF IsSome(o) THEN Unwrap(o) ELSE "null")

SkipNone(key, o) == IF IsSome(o) THEN key :> Unwrap(o) ELSE <<>>

SerializeRecording(r) ==
    [active |-> r.active, paused |-> r.paused, elapsed_secs |-> r.elapsed_secs]
        @@ SkipNone("output_path", r.output_path)
        @@ SkipNone("timecode", r.timecode)

SerializeStreaming(s) ==
    [active |-> s.active, elapsed_secs |-> s.elapsed_secs,
     reconnecting |-> s.reconnecting]
        @@ SkipNone("timecode", s.timecode)
        @@ SkipNone("bitrate_kbps", s.bitrate_kbps)

SerializeStats(st) ==
    [cpu_usage |-> st.cpu_usage, memory_mb |-> st.memory_mb,
     active_fps |-> st.active_fps,
     average_frame_time_ms |-> st.average_frame_time_ms,
     render_missed_frames |-> st.render_missed_frames,
     render_total_frames |-> st.render_total_frames,
     output_skipped_frames |-> st.output_skipped_frames,
     output_total_frames |-> st.output_total_frames]
        @@ SkipNone("available_disk_mb", st.available_disk_mb)
        @@ SkipNone("render_drop_percent", st.render_drop_percent)
        @@ SkipNone("output_drop_percent", st.output_drop_percent)

\* serde_json::to_string(&ObsState)
SerializeObsState(s) ==
    [connected |-> s.connected,
     recording |-> SerializeRecording(s.recording),
     streaming |-> SerializeStreaming(s.streaming),
     scenes |-> s.scenes]
        @@ SkipNone("current_scene", s.current_scene)
        @@ (IF IsSome(s.stats) THEN "stats" :> SerializeStats(Unwrap(s.stats)) ELSE <<>>)
        @@ SkipNone("error", s.error)
        @@ SkipNone("updated_at_secs", s.updated_at_secs)

(***************************************************************************)
(* serde: the value derive(Deserialize) builds from a JSON object.  A      *)
(* missing key of an Option field gives None; scenes has serde(default).   *)
(***************************************************************************)
MissingIsNone(obj, key) == IF key \in DOMAIN obj THEN Some(obj[key]) ELSE None

DeserializeRecording(obj) ==
    [active |-> obj["active"], paused |-> obj["paused"],
     elapsed_secs |-> obj["elapsed_secs"],
     output_path |-> MissingIsNone(obj, "output_path"),
     timecode |-> MissingIsNone(obj, "timecode")]

DeserializeStreaming(obj) ==
    [active |-> obj["active"], elapsed_secs |-> obj["elapsed_secs"],
     timecode |-> MissingIsNone(obj, "timecode"),
     bitrate_kbps |-> MissingIsNone(obj, "bitrate_kbps"),
     reconnecting |-> obj["reconnecting"]]

DeserializeStats(obj) ==
    [cpu_usage |-> obj["cpu_usage"], memory_mb |-> obj["memory_mb"],
     available_disk_mb |-> MissingIsNone(obj, "available_disk_mb"),
     active_fps |-> obj["active_fps"],
     average_frame_time_ms |-> obj["average_frame_time_ms"],
     render_missed_frames |-> obj["render_missed_frames"],
     render_total_frames |-> obj["render_total_frames"],
     output_skipped_frames |-> obj["output_skipped_frames"],
     output_total_frames |-> obj["output_total_frames"],
     render_drop_percent |-> MissingIsNone(obj, "render_drop_percent"),
     output_drop_percent |-> MissingIsNone(obj, "output_drop_percent")]

\* serde_json::from_str::<ObsState>
DeserializeObsState(obj) ==
    [connected |-> obj["connected"],
     recording |-> DeserializeRecording(obj["recording"]),
     streaming |-> DeserializeStreaming(obj["streaming"]),
     current_scene |-> MissingIsNone(obj, "current_scene"),
     scenes |-> IF "scenes" \in DOMAIN obj THEN obj["scenes"] ELSE <<>>,
     stats |-> IF "stats" \in DOMAIN obj THEN Some(DeserializeStats(obj["stats"]))
               ELSE None,
     error |-> MissingIsNone(obj, "error"),
     updated_at_secs |-> MissingIsNone(obj, "updated_at_secs")]

(***************************************************************************)
(* Inputs the environment can supply.                                      *)
(***************************************************************************)
\* values of Daemon.config.max_reconnect_attempts tried (0 = unlimited)
MaxReconnectChoices == {0, 2, 11}

\* messages of a failed ObsClient::connect
ConnectMessages == {"connection refused", "timed out"}

\* what recording().status() can return
RecordingFetches ==
    {None} \cup {Some([active |-> a, paused |-> p]) : a \in BOOLEAN, p \in BOOLEAN}

\* what streaming().status() can return
StreamingFetches ==
    {None, Some([active |-> FALSE, reconnecting |-> FALSE]),
     Some([active |-> TRUE, reconnecting |-> FALSE])}

\* what scenes().current_program_scene() can return
SceneFetches == {None}

\* what scenes().list() can return
ScenesFetches == {None}

\* what general().stats() can return
StatsFetches == {None}

\* every request of a sync failed
AllFailed ==
    [recording |-> None, streaming |-> None, scene |-> None, scenes |-> None,
     stats |-> None]

\* the results the five requests of one sync can have
Fetches ==
    [recording : RecordingFetches, streaming : StreamingFetches,
     scene : SceneFetches, scenes : ScenesFetches, stats : StatsFetches]

(***************************************************************************)
(* The state.                                                              *)
(***************************************************************************)
VARIABLES
    pc,                  \* where Daemon::run / run_connected / write_state stands
    wsite,               \* the caller of the write_state in progress
    config,              \* Daemon.config
    tracker,             \* Daemon.tracker
    reconnect_attempts,  \* local of run()
    in_slow_mode,        \* local of run()
    was_connected,       \* local of the Err arm of run()
    delay,               \* local of the Err arm of run(): Some(ms) while sleeping
    err,                 \* the error run_connected returned, or run() returned
    result,              \* what run() returned: "running", "Ok" or "Err"
    session,             \* the remote session: "none", "up" or "lost"
    sig,                 \* SIGINT handling: "default", "idle", "listening", "received"
    tempFile,            \* the file at state_path.with_extension("json.tmp")
    finalFile,           \* the file at state_path
    now,                 \* the clock, in seconds
    fails_since_connect, \* history: failures since the last successful connect
    sigint_during,       \* history: where the first SIGINT outside the select
                         \* arrived: "sleep", "connect", "tick" (the body of a
                         \* tick, sync done) or "none"
    call                 \* the call made on the tracker on its own: the method, the
                         \* tracker before it, its argument and what it returned

vars ==
    <<pc, wsite, config, tracker, reconnect_attempts, in_slow_mode, was_connected,
      delay, err, result, session, sig, tempFile, finalFile, now,
      fails_since_connect, sigint_during, call>>

\* no call has been made on the tracker on its own
NoCall == [op |-> "none", before |-> None, arg |-> None, result |-> None]

\* a state file a previous run of the daemon left behind
StaleFile ==
    [data |-> SerializeObsState(touch(ObsStateDisconnected, 0)), len |-> "full",
     mode |-> MODE_0600]

\* the configurations of a daemon whose max_reconnect_attempts is in choices
Configs(choices) ==
    [max_reconnect_attempts : choices,
     reconnect_interval_ms : {default_reconnect_interval},
     show_stats : {TRUE}]

\* Daemon::new, before run() is called
InitDaemon ==
    /\ pc = "start"
    /\ wsite = "none"
    /\ tracker = StateTrackerNew
    /\ reconnect_attempts = 0
    /\ in_slow_mode = FALSE
    /\ was_connected = FALSE
    /\ delay = None
    /\ err = None
    /\ result = "running"
    /\ session = "none"
    /\ sig = "default"
    /\ tempFile = None
    /\ finalFile \in {None, Some(StaleFile)}
    /\ now = 0
    /\ fails_since_connect = 0
    /\ sigint_during = "none"
    /\ call = NoCall

Init ==
    /\ InitDaemon
    /\ config \in Configs(MaxReconnectChoices)

(***************************************************************************)
(* Daemon::write_state, one action per file-system call.  The call starts  *)
(* with update_elapsed and the serialization (no file-system effect), then *)
(* std::fs::write (open with truncation, then the writes), metadata and    *)
(* set_permissions, and rename.                                            *)
(***************************************************************************)
\* the first lines of write_state, taken by the caller's action: the tracker
\* after update_elapsed; the next step is the open of the temporary file
BeginWrite(t, site) ==
    /\ tracker' = update_elapsed(t, now)
    /\ wsite' = site
    /\ pc' = "ws_open"

\* write_state returns Err(e) to its caller: the `?` of each call site
WriteFailed(e) ==
    /\ err' = Some(e)
    /\ wsite' = "none"
    /\ IF wsite \in {"connect", "tick"}
       THEN \* run_connected returns Err(e) (daemon.rs:146, 166); the client is dropped
            /\ pc' = "run_err"
            /\ result' = result
            /\ session' = "none"
       ELSE \* run returns Err(e) (daemon.rs:63, 81, 99)
            /\ pc' = "done"
            /\ result' = "Err"
            /\ session' = session

\* write_state returns Ok(()) to its caller
WriteSucceeded ==
    /\ wsite' = "none"
    /\ UNCHANGED <<err, session>>
    /\ CASE wsite = "initial" -> pc' = "connect" /\ result' = result
         [] wsite \in {"connect", "tick"} -> pc' = "select" /\ result' = result
         [] wsite = "failure" -> pc' = "backoff" /\ result' = result
         [] wsite = "shutdown" -> pc' = "done" /\ result' = "Ok"

\* WsOpen as it would be were the next reconciliation not kept from running
\* while write_state runs: a sync is applied to the tracker as the temporary
\* file is opened
WsOpenDuringSync ==
    /\ pc = "ws_open"
    /\ \/ /\ tempFile' = Some([data |-> SerializeObsState(tracker.state),
                               len |-> "empty",
                               mode |-> IF IsSome(tempFile) THEN Unwrap(tempFile).mode
                                        ELSE MODE_CREATE])
          /\ pc' = "ws_write"
          /\ \E fetched \in Fetches :
                tracker' = sync_state(tracker, fetched, now, config.show_stats).tracker
          /\ UNCHANGED <<wsite, err, result, session>>
       \/ /\ WriteFailed(ErrorIo("writing temp state file", "os error"))
          /\ UNCHANGED <<tempFile, tracker>>
    /\ UNCHANGED <<config, reconnect_attempts, in_slow_mode, was_connected,
                   delay, sig, finalFile, now, fails_since_connect, sigint_during, call>>

\* std::fs::write: open(temp_path) with create and truncate
WsOpen ==
    /\ pc = "ws_open"
    /\ \/ /\ tempFile' = Some([data |-> SerializeObsState(tracker.state),
                               len |-> "empty",
                               mode |-> IF IsSome(tempFile) THEN Unwrap(tempFile).mode
                                        ELSE MODE_CREATE])
          /\ pc' = "ws_write"
          /\ UNCHANGED <<wsite, err, result, session>>
       \/ /\ WriteFailed(ErrorIo("writing temp state file", "os error"))
          /\ UNCHANGED tempFile
    /\ UNCHANGED <<config, tracker, reconnect_attempts, in_slow_mode, was_connected,
                   delay, sig, finalFile, now, fails_since_connect, sigint_during, call>>

\* WsWrite as it would be with write in place of write_all: the first write
\* call, which may write only part of the buffer, is taken for the whole
WsWriteOnce ==
    /\ pc = "ws_write"
    /\ \/ /\ \E written \in {"partial", "full"} :
                tempFile' = Some([Unwrap(tempFile) EXCEPT !.len = written])
          /\ pc' = "ws_chmod"
          /\ UNCHANGED <<wsite, err, result, session>>
       \/ /\ WriteFailed(ErrorIo("writing temp state file", "os error"))
          /\ UNCHANGED tempFile
    /\ UNCHANGED <<config, tracker, reconnect_attempts, in_slow_mode, was_connected,
                   delay, sig, finalFile, now, fails_since_connect, sigint_during, call>>

\* std::fs::write: write_all, which may take several write calls
WsWrite ==
    /\ pc = "ws_write"
    /\ \/ /\ Unwrap(tempFile).len = "empty"
          /\ tempFile' = Some([Unwrap(tempFile) EXCEPT !.len = "partial"])
          /\ UNCHANGED <<pc, wsite, err, result, session>>
       \/ /\ tempFile' = Some([Unwrap(tempFile) EXCEPT !.len = "full"])
          /\ pc' = "ws_chmod"
          /\ UNCHANGED <<wsite, err, result, session>>
       \/ /\ WriteFailed(ErrorIo("writing temp state file", "os error"))
          /\ UNCHANGED tempFile
    /\ UNCHANGED <<config, tracker, reconnect_attempts, in_slow_mode, was_connected,
                   delay, sig, finalFile, now, fails_since_connect, sigint_during, call>>

\* WsChmod as it would be without set_permissions: the metadata is read and
\* the file renamed with the mode it was created with
WsChmodSkipped ==
    /\ pc = "ws_chmod"
    /\ \/ /\ pc' = "ws_rename"
          /\ UNCHANGED <<tempFile, wsite, err, result, session>>
       \/ /\ WriteFailed(ErrorIo("reading temp file metadata", "os error"))
          /\ UNCHANGED tempFile
    /\ UNCHANGED <<config, tracker, reconnect_attempts, in_slow_mode, was_connected,
                   delay, sig, finalFile, now, fails_since_connect, sigint_during, call>>

\* std::fs::metadata(temp_path), set_mode(0o600), std::fs::set_permissions
WsChmod ==
    /\ pc = "ws_chmod"
    /\ \/ /\ tempFile' = Some([Unwrap(tempFile) EXCEPT !.mode = MODE_0600])
          /\ pc' = "ws_rename"
          /\ UNCHANGED <<wsite, err, result, session>>
       \/ /\ \E context \in {"reading temp file metadata", "setting file permissions"} :
                WriteFailed(ErrorIo(context, "os error"))
          /\ UNCHANGED tempFile
    /\ UNCHANGED <<config, tracker, reconnect_attempts, in_slow_mode, was_connected,
                   delay, sig, finalFile, now, fails_since_connect, sigint_during, call>>

\* WsRename as it would be were the final file replaced by copying rather
\* than by rename: a failure leaves part of the new snapshot at the state path
WsRenameByCopy ==
    /\ pc = "ws_rename"
    /\ \/ /\ finalFile' = tempFile
          /\ tempFile' = None
          /\ WriteSucceeded
       \/ /\ WriteFailed(ErrorIo("renaming state file", "os error"))
          /\ finalFile' = Some([Unwrap(tempFile) EXCEPT !.len = "partial"])
          /\ UNCHANGED tempFile
    /\ UNCHANGED <<config, tracker, reconnect_attempts, in_slow_mode, was_connected,
                   delay, sig, now, fails_since_connect, sigint_during, call>>

\* std::fs::rename(temp_path, state_path)
WsRename ==
    /\ pc = "ws_rename"
    /\ \/ /\ finalFile' = tempFile
          /\ tempFile' = None
          /\ WriteSucceeded
       \/ /\ WriteFailed(ErrorIo("renaming state file", "os error"))
          /\ UNCHANGED <<tempFile, finalFile>>
    /\ UNCHANGED <<config, tracker, reconnect_attempts, in_slow_mode, was_connected,
                   delay, sig, now, fails_since_connect, sigint_during, call>>

(***************************************************************************)
(* Daemon::run and Daemon::run_connected.                                  *)
(***************************************************************************)
\* Start as it would be without the initial write_state: run() creates the
\* directory and enters the loop
StartWithoutPublish ==
    /\ pc = "start"
    /\ \/ /\ pc' = "connect"
          /\ UNCHANGED <<err, result, tracker, wsite>>
       \/ /\ err' = Some(ErrorIo("creating state directory", "os error"))
          /\ result' = "Err"
          /\ pc' = "done"
          /\ UNCHANGED <<tracker, wsite>>
    /\ UNCHANGED <<config, reconnect_attempts, in_slow_mode, was_connected, delay,
                   session, sig, tempFile, finalFile, now, fails_since_connect,
                   sigint_during, call>>

\* run(), daemon.rs:56-63: create the state directory, write the initial state
Start ==
    /\ pc = "start"
    /\ \/ /\ BeginWrite(tracker, "initial")
          /\ UNCHANGED <<err, result>>
       \/ /\ err' = Some(ErrorIo("creating state directory", "os error"))
          /\ result' = "Err"
          /\ pc' = "done"
          /\ UNCHANGED <<tracker, wsite>>
    /\ UNCHANGED <<config, reconnect_attempts, in_slow_mode, was_connected, delay,
                   session, sig, tempFile, finalFile, now, fails_since_connect,
                   sigint_during, call>>

\* run_connected(), daemon.rs:140: ObsClient::connect succeeds
ConnectOk ==
    /\ pc = "connect"
    /\ session' = "up"
    /\ pc' = "init_sync"
    /\ fails_since_connect' = 0
    /\ UNCHANGED <<wsite, config, tracker, reconnect_attempts, in_slow_mode,
                   was_connected, delay, err, result, sig, tempFile, finalFile, now,
                   sigint_during, call>>

\* run_connected(), daemon.rs:140: ObsClient::connect fails, `?` returns the error
ConnectFail ==
    /\ pc = "connect"
    /\ \E message \in ConnectMessages : err' = Some(ErrorConnection(message))
    /\ pc' = "run_err"
    /\ UNCHANGED <<wsite, config, tracker, reconnect_attempts, in_slow_mode,
                   was_connected, delay, result, session, sig, tempFile, finalFile,
                   now, fails_since_connect, sigint_during, call>>

\* the results the requests of a sync can have on the session as it is
FetchesOn(s) == IF s = "lost" THEN {AllFailed} ELSE Fetches

\* AfterSync as it would be if run_connected did not call write_state after
\* a sync
AfterSyncNoWrite(synced, site) ==
    /\ tracker' = synced.tracker
    /\ pc' = "select"
    /\ UNCHANGED <<wsite, err, session>>

\* the end of a sync in run_connected: Err(e) leaves run_connected, Ok(())
\* goes on to write_state
AfterSync(synced, site) ==
    IF IsSome(synced.result)
    THEN /\ tracker' = synced.tracker
         /\ err' = synced.result
         /\ pc' = "run_err"
         /\ session' = "none"
         /\ UNCHANGED wsite
    ELSE /\ BeginWrite(synced.tracker, site)
         /\ UNCHANGED <<err, session>>

\* run_connected(), daemon.rs:145-146: the initial sync, then write_state
InitSync ==
    /\ pc = "init_sync"
    /\ \E fetched \in FetchesOn(session) :
          AfterSync(sync_state(tracker, fetched, now, config.show_stats), "connect")
    /\ UNCHANGED <<config, reconnect_attempts, in_slow_mode, was_connected, delay,
                   result, sig, tempFile, finalFile, now, fails_since_connect,
                   sigint_during, call>>

\* run_connected(), daemon.rs:154-170: the select! polls tokio::signal::ctrl_c();
\* its first poll installs the process-wide SIGINT handler and registers a
\* listener, which sees the signals that arrive from then on
SelectPoll ==
    /\ pc = "select"
    /\ sig \in {"default", "idle"}
    /\ sig' = "listening"
    /\ UNCHANGED <<pc, wsite, config, tracker, reconnect_attempts, in_slow_mode,
                   was_connected, delay, err, result, session, tempFile, finalFile,
                   now, fails_since_connect, sigint_during, call>>

\* run_connected(), daemon.rs:156-166: the tick branch of the select!; the
\* ctrl_c() future of this iteration is dropped with its listener
Tick ==
    /\ pc = "select"
    /\ sig' = IF sig \in {"listening", "received"} THEN "idle" ELSE sig
    /\ \E fetched \in FetchesOn(session) :
          AfterSync(sync_state(update_elapsed(tracker, now), fetched, now,
                               config.show_stats), "tick")
    /\ UNCHANGED <<config, reconnect_attempts, in_slow_mode, was_connected, delay,
                   result, tempFile, finalFile, now, fails_since_connect,
                   sigint_during, call>>

\* run_connected(), daemon.rs:170-173, then run(), daemon.rs:77-81: the ctrl_c
\* branch returns Ok(()); run() sets the tracker disconnected and writes it
CtrlC ==
    /\ pc = "select"
    /\ sig = "received"
    /\ sig' = "idle"
    /\ session' = "none"
    /\ BeginWrite(set_disconnected(tracker, None), "shutdown")
    /\ UNCHANGED <<config, reconnect_attempts, in_slow_mode, was_connected, delay,
                   err, result, tempFile, finalFile, now, fails_since_connect,
                   sigint_during, call>>

\* MaxExceeded as it would be were the counter compared before its increment
MaxExceededBeforeIncrement(attempts, max) == max > 0 /\ attempts - 1 > max

\* run(), daemon.rs:92: max > 0 && reconnect_attempts > max
MaxExceeded(attempts, max) == max > 0 /\ attempts > max

\* HandleErr as it would be if the Err arm went from set_disconnected
\* straight to the delay, without write_state
HandleErrNoPublish ==
    /\ pc = "run_err"
    /\ reconnect_attempts < MaxAttempts
    /\ was_connected' = tracker.state.connected
    /\ reconnect_attempts' = reconnect_attempts + 1
    /\ fails_since_connect' = fails_since_connect + 1
    /\ IF MaxExceeded(reconnect_attempts + 1, config.max_reconnect_attempts)
       THEN /\ pc' = "done"
            /\ result' = "Err"
            /\ UNCHANGED <<err, tracker, wsite>>
       ELSE /\ tracker' = set_disconnected(tracker, Some(to_string(Unwrap(err))))
            /\ pc' = "backoff"
            /\ err' = None
            /\ UNCHANGED <<result, wsite>>
    /\ UNCHANGED <<config, in_slow_mode, delay, session, sig, tempFile, finalFile,
                   now, sigint_during, call>>

\* run(), daemon.rs:84-99: the Err arm up to write_state
HandleErr ==
    /\ pc = "run_err"
    /\ reconnect_attempts < MaxAttempts
    /\ was_connected' = tracker.state.connected
    /\ reconnect_attempts' = reconnect_attempts + 1
    /\ fails_since_connect' = fails_since_connect + 1
    /\ IF MaxExceeded(reconnect_attempts + 1, config.max_reconnect_attempts)
       THEN /\ pc' = "done"
            /\ result' = "Err"
            /\ UNCHANGED <<err, tracker, wsite>>
       ELSE /\ BeginWrite(set_disconnected(tracker, Some(to_string(Unwrap(err)))),
                          "failure")
            /\ err' = None
            /\ UNCHANGED result
    /\ UNCHANGED <<config, in_slow_mode, delay, session, sig, tempFile, finalFile,
                   now, sigint_during, call>>

\* ResetBackoff as it would be without the was_connected test
ResetBackoffInSlowMode(attempts, slow, connected_before) ==
    IF slow
    THEN [reconnect_attempts |-> 1, in_slow_mode |-> FALSE]
    ELSE [reconnect_attempts |-> attempts, in_slow_mode |-> slow]

\* run(), daemon.rs:101-106: back to fast mode after a connection that was lost
ResetBackoff(attempts, slow, connected_before) ==
    IF connected_before /\ slow
    THEN [reconnect_attempts |-> 1, in_slow_mode |-> FALSE]
    ELSE [reconnect_attempts |-> attempts, in_slow_mode |-> slow]

\* run(), daemon.rs:108-120: the circuit breaker
BackoffDelay(attempts, slow, interval) ==
    IF attempts > FAST_RETRY_THRESHOLD
    THEN [delay |-> SLOW_RETRY_INTERVAL_MS, in_slow_mode |-> TRUE]
    ELSE [delay |-> interval, in_slow_mode |-> slow]

\* Backoff as it would be without sleep(delay).await: the delay is computed
\* and the loop calls run_connected again at once
BackoffWithoutSleep ==
    /\ pc = "backoff"
    /\ LET r == ResetBackoff(reconnect_attempts, in_slow_mode, was_connected)
           d == BackoffDelay(r.reconnect_attempts, r.in_slow_mode,
                             config.reconnect_interval_ms)
       IN  /\ reconnect_attempts' = r.reconnect_attempts
           /\ in_slow_mode' = d.in_slow_mode
           /\ delay' = None
    /\ pc' = "connect"
    /\ UNCHANGED <<wsite, config, tracker, was_connected, err, result, session, sig,
                   tempFile, finalFile, now, fails_since_connect, sigint_during, call>>

\* run(), daemon.rs:101-126: the Err arm after write_state, up to the sleep
Backoff ==
    /\ pc = "backoff"
    /\ LET r == ResetBackoff(reconnect_attempts, in_slow_mode, was_connected)
           d == BackoffDelay(r.reconnect_attempts, r.in_slow_mode,
                             config.reconnect_interval_ms)
       IN  /\ reconnect_attempts' = r.reconnect_attempts
           /\ in_slow_mode' = d.in_slow_mode
           /\ delay' = Some(d.delay)
    /\ pc' = "sleep"
    /\ UNCHANGED <<wsite, config, tracker, was_connected, err, result, session, sig,
                   tempFile, finalFile, now, fails_since_connect, sigint_during, call>>

\* run(), daemon.rs:127: sleep(delay) elapses, the loop calls run_connected again
SleepDone ==
    /\ pc = "sleep"
    /\ delay' = None
    /\ pc' = "connect"
    /\ UNCHANGED <<wsite, config, tracker, reconnect_attempts, in_slow_mode,
                   was_connected, err, result, session, sig, tempFile, finalFile, now,
                   fails_since_connect, sigint_during, call>>

(***************************************************************************)
(* The environment.                                                        *)
(***************************************************************************)
\* the transport of the session is lost: from now on every request fails
TransportLost ==
    /\ session = "up"
    /\ session' = "lost"
    /\ UNCHANGED <<pc, wsite, config, tracker, reconnect_attempts, in_slow_mode,
                   was_connected, delay, err, result, sig, tempFile, finalFile, now,
                   fails_since_connect, sigint_during, call>>

\* SIGINT is delivered to the process.  Before the first ctrl_c() poll the
\* default disposition terminates the process; afterwards the handler passes
\* the signal to the listener of the select!, if there is one at that moment,
\* and drops it otherwise.
Sigint ==
    /\ pc \notin {"done", "killed"}
    /\ pc' = IF sig = "default" THEN "killed" ELSE pc
    /\ sig' = IF sig = "listening" THEN "received" ELSE sig
    /\ sigint_during' = IF sigint_during # "none" THEN sigint_during
                        ELSE IF pc \in {"sleep", "connect"} THEN pc
                        ELSE IF wsite = "tick" THEN "tick"
                        ELSE sigint_during
    /\ UNCHANGED <<wsite, config, tracker, reconnect_attempts, in_slow_mode,
                   was_connected, delay, err, result, session, tempFile, finalFile,
                   now, fails_since_connect, call>>

\* time passes while the daemon waits
ClockAdvance ==
    /\ pc \in {"connect", "select", "sleep"}
    /\ now < MaxNow
    /\ now' = now + 1
    /\ UNCHANGED <<pc, wsite, config, tracker, reconnect_attempts, in_slow_mode,
                   was_connected, delay, err, result, session, sig, tempFile,
                   finalFile, fails_since_connect, sigint_during, call>>

\* the daemon and its environment, the clock standing still
Next ==
    \/ Start
    \/ ConnectOk
    \/ ConnectFail
    \/ InitSync
    \/ SelectPoll
    \/ Tick
    \/ CtrlC
    \/ HandleErr
    \/ Backoff
    \/ SleepDone
    \/ WsOpen
    \/ WsWrite
    \/ WsChmod
    \/ WsRename
    \/ TransportLost
    \/ Sigint

Spec == Init /\ [][Next]_vars

\* the daemon with a small max_reconnect_attempts, the clock running
InitTimed ==
    /\ InitDaemon
    /\ config \in Configs({2})

NextTimed ==
    \/ Next
    \/ ClockAdvance

SpecTimed == InitTimed /\ [][NextTimed]_vars

(***************************************************************************)
(* The tracker and the reconciler on their own: one call of a method on a  *)
(* tracker in a state the daemon's calls can have left it in.              *)
(***************************************************************************)
\* names of scenes of the remote
SceneNames == {"Main", "BRB"}

\* scene lists of the remote: no scene, and two scenes
SceneLists == {<<>>, <<"BRB", "Main">>}

\* what general().stats() reports: nothing rendered yet, and frames dropped
RawStats ==
    {[cpu_usage |-> 5, memory_mb |-> 512, available_disk_mb |-> 1000,
      active_fps |-> 60, average_frame_time_ms |-> 4,
      render_missed_frames |-> 0, render_total_frames |-> 0,
      output_skipped_frames |-> 0, output_total_frames |-> 0],
     [cpu_usage |-> 5, memory_mb |-> 512, available_disk_mb |-> 1000,
      active_fps |-> 60, average_frame_time_ms |-> 4,
      render_missed_frames |-> 1, render_total_frames |-> 4,
      output_skipped_frames |-> 1, output_total_frames |-> 2]}

\* what streaming().status() can return, a reconnecting stream included
StreamingFetchesAll ==
    StreamingFetches \cup {Some([active |-> TRUE, reconnecting |-> TRUE])}

\* the results the five requests of one sync can have, every request answered
\* or not
FetchesAll ==
    [recording : RecordingFetches,
     streaming : StreamingFetchesAll,
     scene : {None} \cup {Some(n) : n \in SceneNames},
     scenes : {None} \cup {Some(l) : l \in SceneLists},
     stats : {None} \cup {Some(raw) : raw \in RawStats}]

\* the results of the first sync of a session
FetchesFirst ==
    [recording : RecordingFetches,
     streaming : StreamingFetches,
     scene : {None, Some("Main")},
     scenes : {None, Some(<<"Main", "BRB">>)},
     stats : {None} \cup {Some(raw) : raw \in {r \in RawStats : r.render_total_frames > 0}}]

\* messages set_disconnected is called with
DisconnectErrors == {None, Some("OBS request failed: connection closed")}

\* the tracker after the initial sync of a session (run_connected, daemon.rs:145)
TrackersSynced ==
    {sync_state(StateTrackerNew, f, 0, TRUE).tracker : f \in FetchesFirst}

\* the tracker after a tick that follows at time c (daemon.rs:157-160):
\* update_elapsed, then a sync in which the recording status may have changed
TrackersTicked ==
    {sync_state(update_elapsed(t, c), [AllFailed EXCEPT !.recording = r], c, TRUE).tracker :
        t \in TrackersSynced, r \in RecordingFetches, c \in 0..MaxNow}

\* the tracker after the session ended (run, daemon.rs:79, 98)
TrackersDisconnected ==
    {set_disconnected(t, e) : t \in TrackersSynced, e \in DisconnectErrors}

\* states the daemon's calls leave a tracker in
PriorTrackers ==
    {StateTrackerNew} \cup TrackersSynced \cup TrackersTicked \cup TrackersDisconnected

\* a tracker in one of these states, at some time, and no call made yet
InitTracker ==
    /\ pc = "start"
    /\ wsite = "none"
    /\ config \in [max_reconnect_attempts : {0},
                   reconnect_interval_ms : {default_reconnect_interval},
                   show_stats : BOOLEAN]
    /\ tracker \in PriorTrackers
    /\ reconnect_attempts = 0
    /\ in_slow_mode = FALSE
    /\ was_connected = FALSE
    /\ delay = None
    /\ err = None
    /\ result = "running"
    /\ session = "none"
    /\ sig = "default"
    /\ tempFile = None
    /\ finalFile = None
    /\ now \in 0..MaxNow
    /\ IsSome(tracker.state.updated_at_secs) => now >= Unwrap(tracker.state.updated_at_secs)
    /\ fails_since_connect = 0
    /\ sigint_during = "none"
    /\ call = NoCall

\* ObsClient::sync_state(&mut tracker) with the requests answered as fetched
CallSyncState ==
    /\ call.op = "none"
    /\ \E fetched \in FetchesAll :
          LET synced == sync_state(tracker, fetched, now, config.show_stats)
          IN  /\ tracker' = synced.tracker
              /\ call' = [op |-> "sync_state", before |-> Some(tracker),
                          arg |-> fetched, result |-> synced.result]
    /\ UNCHANGED <<pc, wsite, config, reconnect_attempts, in_slow_mode, was_connected,
                   delay, err, result, session, sig, tempFile, finalFile, now,
                   fails_since_connect, sigint_during>>

\* tracker.set_disconnected(error)
CallSetDisconnected ==
    /\ call.op = "none"
    /\ \E error \in DisconnectErrors :
          /\ tracker' = set_disconnected(tracker, error)
          /\ call' = [op |-> "set_disconnected", before |-> Some(tracker),
                      arg |-> error, result |-> None]
    /\ UNCHANGED <<pc, wsite, config, reconnect_attempts, in_slow_mode, was_connected,
                   delay, err, result, session, sig, tempFile, finalFile, now,
                   fails_since_connect, sigint_during>>

NextTracker ==
    \/ CallSyncState
    \/ CallSetDisconnected

SpecTracker == InitTracker /\ [][NextTracker]_vars

(***************************************************************************)
(* A StateTracker from new(), its methods and ObsClient::sync_state called *)
(* on it in any order while the clock runs.                                *)
(***************************************************************************)
\* StateTracker::new(), no method called yet
InitMethods ==
    /\ pc = "start"
    /\ wsite = "none"
    /\ config \in [max_reconnect_attempts : {0},
                   reconnect_interval_ms : {default_reconnect_interval},
                   show_stats : BOOLEAN]
    /\ tracker = StateTrackerNew
    /\ reconnect_attempts = 0
    /\ in_slow_mode = FALSE
    /\ was_connected = FALSE
    /\ delay = None
    /\ err = None
    /\ result = "running"
    /\ session = "none"
    /\ sig = "default"
    /\ tempFile = None
    /\ finalFile = None
    /\ now = 0
    /\ fails_since_connect = 0
    /\ sigint_during = "none"
    /\ call = NoCall

\* a method call changes the tracker and nothing else
MethodFrame ==
    UNCHANGED <<pc, wsite, config, reconnect_attempts, in_slow_mode, was_connected,
                delay, err, result, session, sig, tempFile, finalFile, now,
                fails_since_connect, sigint_during, call>>

\* client.sync_state(&mut tracker)
MethodSyncState ==
    /\ \E fetched \in Fetches :
          tracker' = sync_state(tracker, fetched, now, config.show_stats).tracker
    /\ MethodFrame

MethodSetConnected ==
    /\ tracker' = set_connected(tracker)
    /\ MethodFrame

MethodSetDisconnected ==
    /\ \E error \in DisconnectErrors : tracker' = set_disconnected(tracker, error)
    /\ MethodFrame

MethodStartRecording ==
    /\ tracker' = start_recording(tracker, now)
    /\ MethodFrame

MethodStopRecording ==
    /\ tracker' = stop_recording(tracker)
    /\ MethodFrame

MethodPauseRecording ==
    /\ tracker' = pause_recording(tracker)
    /\ MethodFrame

MethodResumeRecording ==
    /\ tracker' = resume_recording(tracker)
    /\ MethodFrame

MethodStartStreaming ==
    /\ tracker' = start_streaming(tracker, now)
    /\ MethodFrame

MethodStopStreaming ==
    /\ tracker' = stop_streaming(tracker)
    /\ MethodFrame

MethodUpdateElapsed ==
    /\ tracker' = update_elapsed(tracker, now)
    /\ MethodFrame

\* time passes between two calls
MethodClock ==
    /\ now < MaxNow
    /\ now' = now + 1
    /\ UNCHANGED <<pc, wsite, config, tracker, reconnect_attempts, in_slow_mode,
                   was_connected, delay, err, result, session, sig, tempFile,
                   finalFile, fails_since_connect, sigint_during, call>>

NextMethods ==
    \/ MethodSyncState
    \/ MethodSetConnected
    \/ MethodSetDisconnected
    \/ MethodStartRecording
    \/ MethodStopRecording
    \/ MethodPauseRecording
    \/ MethodResumeRecording
    \/ MethodStartStreaming
    \/ MethodStopStreaming
    \/ MethodUpdateElapsed
    \/ MethodClock

SpecMethods == InitMethods /\ [][NextMethods]_vars

(***************************************************************************)
(* The functions of state.rs that take no tracker, each called once on a   *)
(* value of a bounded set.                                                 *)
(***************************************************************************)
\* largest number of seconds of the contiguous range format_timecode is
\* called on
MaxSecs == 3700

\* the elapsed times format_timecode is called on: every value up to just
\* over an hour, and values around two hours, a day and a hundred hours
TimecodeInputs == (0..MaxSecs) \cup {7199, 7200, 86399, 86400, 359999, 360000}

\* frame counters (missed, total): nothing counted, none missed, some missed,
\* a ratio that is no whole percentage, all missed
FrameCounts == {<<0, 0>>, <<0, 4>>, <<1, 4>>, <<1, 3>>, <<4, 4>>}

\* percentage fields an ObsStats can hold before calculate_percentages
PercentsBefore == {None, Some(Percent(1, 2))}

\* the ObsStats values calculate_percentages is called on
StatsInputs ==
    {[cpu_usage |-> 5, memory_mb |-> 512, available_disk_mb |-> None,
      active_fps |-> 60, average_frame_time_ms |-> 4,
      render_missed_frames |-> render[1], render_total_frames |-> render[2],
      output_skipped_frames |-> output[1], output_total_frames |-> output[2],
      render_drop_percent |-> rp, output_drop_percent |-> op] :
        render \in FrameCounts, output \in FrameCounts,
        rp \in PercentsBefore, op \in PercentsBefore}

\* an ObsState with every optional field populated
ObsStatePopulated ==
    [connected |-> TRUE,
     recording |-> [active |-> TRUE, paused |-> TRUE, elapsed_secs |-> 120,
                    output_path |-> Some("/videos/a.mkv"),
                    timecode |-> Some(format_timecode(120))],
     streaming |-> [active |-> TRUE, elapsed_secs |-> 300,
                    timecode |-> Some(format_timecode(300)),
                    bitrate_kbps |-> Some(6000), reconnecting |-> TRUE],
     current_scene |-> Some("Main"),
     scenes |-> <<"Main", "BRB">>,
     stats |-> Some([cpu_usage |-> 10, memory_mb |-> 256,
                     available_disk_mb |-> Some(1000), active_fps |-> 60,
                     average_frame_time_ms |-> 4,
                     render_missed_frames |-> 1, render_total_frames |-> 4,
                     output_skipped_frames |-> 1, output_total_frames |-> 2,
                     render_drop_percent |-> Some(Percent(1, 4)),
                     output_drop_percent |-> Some(Percent(1, 2))]),
     error |-> Some("OBS request failed: connection closed"),
     updated_at_secs |-> Some(1)]

\* the ObsState values that are encoded and decoded: the default, the fully
\* populated one, and the states the daemon's calls leave the tracker in,
\* before and after update_elapsed
ObsStateInputs ==
    {ObsStateDisconnected, ObsStatePopulated}
        \cup {t.state : t \in PriorTrackers}
        \cup {update_elapsed(t, MaxNow).state : t \in PriorTrackers}

\* nothing has been called yet
InitFunctions ==
    /\ InitDaemon
    /\ config \in Configs({0})

\* RecordingState::format_timecode(secs)
CallFormatTimecode ==
    /\ call.op = "none"
    /\ \E secs \in TimecodeInputs :
          call' = [op |-> "format_timecode", before |-> None, arg |-> secs,
                   result |-> Some(format_timecode(secs))]
    /\ UNCHANGED <<pc, wsite, config, tracker, reconnect_attempts, in_slow_mode,
                   was_connected, delay, err, result, session, sig, tempFile,
                   finalFile, now, fails_since_connect, sigint_during>>

\* stats.calculate_percentages()
CallCalculatePercentages ==
    /\ call.op = "none"
    /\ \E stats \in StatsInputs :
          call' = [op |-> "calculate_percentages", before |-> None, arg |-> stats,
                   result |-> Some(calculate_percentages(stats))]
    /\ UNCHANGED <<pc, wsite, config, tracker, reconnect_attempts, in_slow_mode,
                   was_connected, delay, err, result, session, sig, tempFile,
                   finalFile, now, fails_since_connect, sigint_during>>

\* serde_json::from_str(&serde_json::to_string(&state))
CallRoundTrip ==
    /\ call.op = "none"
    /\ \E state \in ObsStateInputs :
          call' = [op |-> "roundtrip", before |-> Some(state),
                   arg |-> SerializeObsState(state),
                   result |-> Some(DeserializeObsState(SerializeObsState(state)))]
    /\ UNCHANGED <<pc, wsite, config, tracker, reconnect_attempts, in_slow_mode,
                   was_connected, delay, err, result, session, sig, tempFile,
                   finalFile, now, fails_since_connect, sigint_during>>

\* one specification per function: each is called once on one input
NextFormatTimecode == CallFormatTimecode

SpecFormatTimecode == InitFunctions /\ [][NextFormatTimecode]_vars

NextCalculatePercentages == CallCalculatePercentages

SpecCalculatePercentages == InitFunctions /\ [][NextCalculatePercentages]_vars

NextRoundTrip == CallRoundTrip

SpecRoundTrip == InitFunctions /\ [][NextRoundTrip]_vars

(***************************************************************************)
(* daemon.rs: send_command, the one-shot commands of the CLI.  Each call   *)
(* opens its own session; requests lists the client methods the call       *)
(* awaited on it, in order.                                                *)
(***************************************************************************)
\* enum Command
Commands ==
    {[kind |-> k, name |-> None] :
        k \in {"StartRecording", "StopRecording", "TogglePause", "StartStreaming",
               "StopStreaming", "GetStatus"}}
        \cup {[kind |-> "SetScene", name |-> Some(n)] : n \in SceneNames}

\* messages of a failed request
RequestMessages == {"connection closed", "not ready"}

\* what the remote answers to the request of a command: error is None when
\* the request succeeded, path is what recording().stop() returns and paused
\* what recording().toggle_pause() returns
Replies ==
    [error : {None} \cup {Some(m) : m \in RequestMessages},
     path : {"/videos/a.mkv"}, paused : BOOLEAN]

\* the reply of a request that is never sent
NoReply == [error |-> None, path |-> "/videos/a.mkv", paused |-> FALSE]

\* the client methods one ObsClient::sync_state awaits, in order
sync_stateRequests(show_stats) ==
    <<"recording_status", "streaming_status", "current_scene", "get_scenes">>
        \o (IF show_stats THEN <<"get_stats">> ELSE <<>>)

\* the client method the arm of a command other than GetStatus awaits
CommandMethod(command) ==
    CASE command.kind = "StartRecording" -> "start_recording"
      [] command.kind = "StopRecording" -> "stop_recording"
      [] command.kind = "TogglePause" -> "toggle_recording_pause"
      [] command.kind = "StartStreaming" -> "start_streaming"
      [] command.kind = "StopStreaming" -> "stop_streaming"
      [] command.kind = "SetScene" -> "set_scene"

\* the message of the CommandResult::Success the arm returns
SuccessMessage(command, reply) ==
    CASE command.kind = "StartRecording" -> "Recording started"
      [] command.kind = "StopRecording" -> "Recording saved to: " \o reply.path
      [] command.kind = "TogglePause" ->
            IF reply.paused THEN "Recording paused" ELSE "Recording resumed"
      [] command.kind = "StartStreaming" -> "Streaming started"
      [] command.kind = "StopStreaming" -> "Streaming stopped"
      [] command.kind = "SetScene" -> "Scene set to: " \o Unwrap(command.name)

\* send_command as it would be without the `?` on ObsClient::connect: the
\* arm's request is sent although no session was acquired
send_commandRequestBeforeConnect(cfg, command, connect, reply, fetched, clock) ==
    IF command.kind = "GetStatus"
    THEN [requests |-> sync_stateRequests(cfg.show_stats), success |-> None,
          state |-> Some(sync_state(StateTrackerNew, fetched, clock,
                                    cfg.show_stats).tracker.state),
          error |-> None]
    ELSE [requests |-> <<CommandMethod(command)>>,
          success |-> IF IsSome(connect) \/ IsSome(reply.error) THEN None
                      ELSE Some(SuccessMessage(command, reply)),
          state |-> None,
          error |-> IF IsSome(connect) THEN Some(ErrorConnection(Unwrap(connect)))
                    ELSE IF IsSome(reply.error)
                    THEN Some(ErrorRequest(Unwrap(reply.error)))
                    ELSE None]

\* send_command(config, command): connect is None when ObsClient::connect
\* succeeded and Some(message) when it failed, reply answers the request of
\* an arm other than GetStatus, fetched answers the requests of sync_state.
\* The value is the requests awaited and the Result: Ok(Success(message)),
\* Ok(State(state)) or Err(error).
send_command(cfg, command, connect, reply, fetched, clock) ==
    IF IsSome(connect)
    THEN [requests |-> <<>>, success |-> None, state |-> None,
          error |-> Some(ErrorConnection(Unwrap(connect)))]
    ELSE IF command.kind = "GetStatus"
    THEN LET synced == sync_state(StateTrackerNew, fetched, clock, cfg.show_stats)
         IN  [requests |-> sync_stateRequests(cfg.show_stats), success |-> None,
              state |-> IF IsSome(synced.result) THEN None
                        ELSE Some(synced.tracker.state),
              error |-> synced.result]
    ELSE [requests |-> <<CommandMethod(command)>>,
          success |-> IF IsSome(reply.error) THEN None
                      ELSE Some(SuccessMessage(command, reply)),
          state |-> None,
          error |-> IF IsSome(reply.error)
                    THEN Some(ErrorRequest(Unwrap(reply.error)))
                    ELSE None]

\* the CLI process before it calls send_command
InitCommand ==
    /\ InitDaemon
    /\ config \in [max_reconnect_attempts : {0},
                   reconnect_interval_ms : {default_reconnect_interval},
                   show_stats : BOOLEAN]

\* the call send_command(config, command) with the remote behaving as the
\* inputs say
SendCommand(command, connect, reply, fetched) ==
    /\ call.op = "none"
    /\ call' = [op |-> "send_command", before |-> None,
                arg |-> [command |-> command, connect |-> connect,
                         reply |-> reply, fetched |-> fetched],
                result |-> Some(send_command(config, command, connect, reply,
                                             fetched, now))]
    /\ UNCHANGED <<pc, wsite, config, tracker, reconnect_attempts, in_slow_mode,
                   was_connected, delay, err, result, session, sig, tempFile,
                   finalFile, now, fails_since_connect, sigint_during>>

\* send_command when ObsClient::connect fails
CallSendCommandNoSession ==
    \E command \in Commands, m \in ConnectMessages :
        SendCommand(command, Some(m), NoReply, AllFailed)

\* send_command of a command whose arm awaits one client method
CallSendCommandRequest ==
    \E command \in {c \in Commands : c.kind # "GetStatus"}, reply \in Replies :
        SendCommand(command, None, reply, AllFailed)

\* send_command(config, Command::GetStatus)
CallSendCommandGetStatus ==
    \E command \in {c \in Commands : c.kind = "GetStatus"}, fetched \in FetchesAll :
        SendCommand(command, None, NoReply, fetched)

NextCommand ==
    \/ CallSendCommandNoSession
    \/ CallSendCommandRequest
    \/ CallSendCommandGetStatus

SpecCommand == InitCommand /\ [][NextCommand]_vars

(***************************************************************************)
(* The two entry points of the crate from one configuration: the process   *)
(* either runs the daemon or sends one command.                            *)
(***************************************************************************)
NextProgram ==
    \/ call.op = "none" /\ Next
    \/ pc = "start" /\ NextCommand

SpecProgram == InitTimed /\ [][NextProgram]_vars

(***************************************************************************)
(* Steps of the supervisor, as the properties below name them.             *)
(***************************************************************************)
\* the select! takes its tick branch
TickStep ==
    /\ pc = "select"
    /\ pc' = "run_err" \/ (pc' = "ws_open" /\ wsite' = "tick")

\* the select! takes its ctrl_c branch
CtrlCStep == pc = "select" /\ pc' = "ws_open" /\ wsite' = "shutdown"

\* the Err arm of run() starts
HandleErrStep == pc = "run_err" /\ pc' \in {"ws_open", "done"}

\* the Err arm of run() computes its delay
BackoffStep == pc = "backoff" /\ pc' = "sleep"

\* run() returns an error
ReturnErrStep == pc # "done" /\ pc' = "done" /\ result' = "Err"

\* the snapshot at the final path shows a cleanly disconnected daemon
FinalSnapshotDisconnected ==
    /\ IsSome(finalFile)
    /\ Unwrap(finalFile).len = "full"
    /\ Unwrap(finalFile).data["connected"] = FALSE
    /\ Unwrap(finalFile).data["recording"]["active"] = FALSE
    /\ Unwrap(finalFile).data["streaming"]["active"] = FALSE
    /\ "error" \notin DOMAIN Unwrap(finalFile).data

(***************************************************************************)
(* C1.  While the supervisor is Connected, a tick whose sync runs on a     *)
(* session that has lost its transport (every request fails) makes the     *)
(* supervisor leave the connected loop for the Err arm of run() on that    *)
(* very tick.                                                              *)
(***************************************************************************)
C1_TransportLossEndsSession ==
    [][(TickStep /\ session = "lost") => pc' = "run_err"]_vars

(***************************************************************************)
(* C2.  At every instant the final state-file path either does not exist   *)
(* or holds one complete serialized snapshot, never an empty or partly     *)
(* written file, whatever step of whatever publish is in progress or has   *)
(* failed; the final path changes only by the rename of the temporary      *)
(* file.                                                                   *)
(***************************************************************************)
CompleteSnapshot(file) ==
    /\ file.len = "full"
    /\ {"connected", "recording", "streaming", "scenes"} \subseteq DOMAIN file.data

C2_FinalFileAlwaysComplete ==
    /\ [](finalFile = None \/ CompleteSnapshot(Unwrap(finalFile)))
    /\ [][finalFile' # finalFile
             => /\ pc = "ws_rename"
                /\ finalFile' = tempFile
                /\ tempFile' = None]_vars

\* a publish failed half way through its write while the final path holds the
\* snapshot of an earlier publish of this run
C2_Witness ==
    /\ pc = "run_err"
    /\ IsSome(tempFile)
    /\ Unwrap(tempFile).len = "partial"
    /\ IsSome(finalFile)
    /\ Unwrap(finalFile).data["connected"] = TRUE
    /\ Unwrap(finalFile).data # Unwrap(tempFile).data

(***************************************************************************)
(* C3.  The delay slept after the i-th failure since the last successful   *)
(* connection (or since the start) is reconnect_interval_ms when           *)
(* i <= FAST_RETRY_THRESHOLD and SLOW_RETRY_INTERVAL_MS when it is larger. *)
(***************************************************************************)
C3_DelayByFailureIndex ==
    pc = "sleep" =>
        delay = Some(IF fails_since_connect <= FAST_RETRY_THRESHOLD
                     THEN config.reconnect_interval_ms
                     ELSE SLOW_RETRY_INTERVAL_MS)

(***************************************************************************)
(* C4.  After M failed attempts in fast mode (1 <= M <= 10, so the counter *)
(* stands at M + 1 >= 2 with the new failure), one successful connection   *)
(* and a new failure, the Err arm leaves the counter at 1 and sleeps the   *)
(* fast reconnect_interval_ms.                                             *)
(***************************************************************************)
C4_CounterResetAfterSuccess ==
    [][(BackoffStep /\ was_connected /\ ~in_slow_mode /\ reconnect_attempts >= 2)
          => (reconnect_attempts' = 1 /\ delay' = Some(config.reconnect_interval_ms))]_vars

(***************************************************************************)
(* C5.  A failure that ends a session whose connected flag was true, with  *)
(* the supervisor in slow mode, is retried: the Err arm does not return,   *)
(* sets the counter to 1, leaves slow mode and sleeps the fast             *)
(* reconnect_interval_ms.                                                  *)
(***************************************************************************)
C5_SlowModeLeftAfterConnected ==
    [][/\ (HandleErrStep /\ tracker.state.connected /\ in_slow_mode) => pc' # "done"
       /\ (wsite = "failure" /\ was_connected /\ in_slow_mode) => pc' # "done"
       /\ (BackoffStep /\ was_connected /\ in_slow_mode)
             => /\ reconnect_attempts' = 1
                /\ ~in_slow_mode'
                /\ delay' = Some(config.reconnect_interval_ms)]_vars

(***************************************************************************)
(* C6.  The Err arm reads the connected flag before set_disconnected       *)
(* clears it.  A failed session acquisition finds the flag false, adds     *)
(* exactly 1 to the counter and neither resets it nor leaves slow mode;    *)
(* the counter is reset, or slow mode left, only in the Err arm of a       *)
(* failure that found the flag true.                                       *)
(***************************************************************************)
C6_ResetOnlyAfterConnected ==
    [][/\ HandleErrStep => was_connected' = tracker.state.connected
       /\ (HandleErrStep /\ Unwrap(err).kind = "Connection")
             => /\ ~tracker.state.connected
                /\ reconnect_attempts' = reconnect_attempts + 1
                /\ in_slow_mode' = in_slow_mode
       /\ (BackoffStep /\ ~was_connected)
             => /\ reconnect_attempts' = reconnect_attempts
                /\ in_slow_mode => in_slow_mode'
       /\ (reconnect_attempts' < reconnect_attempts \/ (in_slow_mode /\ ~in_slow_mode'))
             => (BackoffStep /\ was_connected)]_vars

\* a failed acquisition in slow mode has been counted and slow mode kept
C6_Witness ==
    /\ pc = "sleep"
    /\ ~was_connected
    /\ in_slow_mode
    /\ reconnect_attempts = FAST_RETRY_THRESHOLD + 2
    /\ delay = Some(SLOW_RETRY_INTERVAL_MS)

(***************************************************************************)
(* C7.  With max_reconnect_attempts = k > 0, the Err arm of the failure    *)
(* that takes the counter above k returns that failure's error from run(): *)
(* nothing is published, no sleep and no further connection attempt        *)
(* follow.                                                                 *)
(***************************************************************************)
C7_MaxAttemptsIsFatal ==
    [][/\ (HandleErrStep /\ config.max_reconnect_attempts > 0
              /\ reconnect_attempts + 1 > config.max_reconnect_attempts)
             => /\ pc' = "done"
                /\ result' = "Err"
                /\ err' = err
                /\ delay' = None
                /\ UNCHANGED <<tracker, tempFile, finalFile>>
       /\ pc = "done" => pc' = "done"]_vars

\* run() has returned the connection error of the failure that exceeded k
C7_Witness ==
    /\ pc = "done"
    /\ result = "Err"
    /\ config.max_reconnect_attempts = 2
    /\ reconnect_attempts = 3
    /\ err = Some(ErrorConnection("timed out"))

(***************************************************************************)
(* C8.  Once the run loop has started, run() returns an error only when    *)
(* max_reconnect_attempts > 0 and the failure counter exceeds it.          *)
(***************************************************************************)
C8_OnlyMaxAttemptsIsFatal ==
    [][(ReturnErrStep /\ pc # "start" /\ wsite # "initial")
          => /\ config.max_reconnect_attempts > 0
             /\ reconnect_attempts' > config.max_reconnect_attempts]_vars

(***************************************************************************)
(* C9.  Taking the cancellation signal in the connected loop is not a      *)
(* failure: the counter and the slow-mode flag stay as they are, no        *)
(* backoff sleep follows, the final snapshot (connected false, recording   *)
(* and streaming inactive, no error) is published and run() returns Ok.    *)
(***************************************************************************)
C9_CleanShutdown ==
    [][/\ CtrlCStep
             => /\ UNCHANGED <<reconnect_attempts, in_slow_mode, delay>>
                /\ ~tracker'.state.connected
                /\ tracker'.state.error = None
       /\ wsite = "shutdown"
             => /\ UNCHANGED <<reconnect_attempts, in_slow_mode, delay>>
                /\ pc' \in {"ws_write", "ws_chmod", "ws_rename", "done"}
                /\ pc' = "done" => (result' = "Ok" /\ FinalSnapshotDisconnected')]_vars

(***************************************************************************)
(* C10.  After a SIGINT that arrives during the backoff sleep or during a  *)
(* connection attempt the supervisor shuts down cleanly: it does not       *)
(* finish the sleep or go on to a session, it publishes the final          *)
(* snapshot and run() returns Ok.                                          *)
(***************************************************************************)
C10_ShutdownDuringBackoff ==
    sigint_during \in {"sleep", "connect"} =>
        \/ pc = sigint_during
        \/ wsite = "shutdown"
        \/ pc = "done" /\ result = "Ok" /\ FinalSnapshotDisconnected

(***************************************************************************)
(* C11.  Every snapshot the daemon writes, at the temporary or the final   *)
(* path, and the tracker it is taken from, satisfy: connected false        *)
(* implies recording.active false and streaming.active false.              *)
(***************************************************************************)
DisconnectedIsIdle(data) ==
    ~data["connected"] =>
        (~data["recording"]["active"] /\ ~data["streaming"]["active"])

C11_DisconnectedSnapshotIsIdle ==
    /\ DisconnectedIsIdle(SerializeObsState(tracker.state))
    /\ IsSome(tempFile) => DisconnectedIsIdle(Unwrap(tempFile).data)
    /\ IsSome(finalFile) => DisconnectedIsIdle(Unwrap(finalFile).data)

\* the snapshot of a failure is about to replace the snapshot of a session
\* that was recording and streaming
C11_Witness ==
    /\ pc = "ws_rename"
    /\ wsite = "failure"
    /\ IsSome(finalFile)
    /\ Unwrap(finalFile).data["connected"]
    /\ Unwrap(finalFile).data["recording"]["active"]
    /\ Unwrap(finalFile).data["streaming"]["active"]
    /\ ~Unwrap(tempFile).data["connected"]
    /\ "error" \in DOMAIN Unwrap(tempFile).data

(***************************************************************************)
(* C12.  After set_disconnected(err) on a tracker in any state, connected  *)
(* is false, recording and streaming are inactive, the error field is err  *)
(* (no error key in the snapshot when err is None) and both timer anchors  *)
(* are cleared.                                                            *)
(***************************************************************************)
C12_SetDisconnectedClears ==
    call.op = "set_disconnected" =>
        /\ ~tracker.state.connected
        /\ ~tracker.state.recording.active
        /\ ~tracker.state.streaming.active
        /\ tracker.state.error = call.arg
        /\ call.arg = None <=> "error" \notin DOMAIN SerializeObsState(tracker.state)
        /\ tracker.recording_started = None
        /\ tracker.streaming_started = None

\* set_disconnected with an error was called on a connected tracker that was
\* recording, paused, and streaming
C12_Witness ==
    /\ call.op = "set_disconnected"
    /\ IsSome(call.arg)
    /\ Unwrap(call.before).state.connected
    /\ Unwrap(call.before).state.recording.active
    /\ Unwrap(call.before).state.recording.paused
    /\ IsSome(Unwrap(call.before).recording_started)
    /\ Unwrap(call.before).state.streaming.active
    /\ IsSome(Unwrap(call.before).state.recording.timecode)
    /\ ~tracker.state.connected

(***************************************************************************)
(* C13.  Every sync (the initial one of a connection and the one of every  *)
(* tick) and every transition to the disconnected state (failure or        *)
(* shutdown) is followed at once by a publish attempt of the model as it   *)
(* then is: the model is not touched while the attempt runs, and whenever  *)
(* the supervisor waits for the next tick, computes its delay, sleeps,     *)
(* retries or has returned Ok, the file at the final path is the           *)
(* serialization of the model.                                             *)
(***************************************************************************)
\* write_state is between its first file-system call and its return
Publishing == pc \in {"ws_open", "ws_write", "ws_chmod", "ws_rename"}

\* the file at the final path is the current model
PublishedIsCurrent ==
    /\ IsSome(finalFile)
    /\ Unwrap(finalFile).len = "full"
    /\ Unwrap(finalFile).data = SerializeObsState(tracker.state)

C14_FailurePublishedBeforeSleep ==
    /\ [](pc \in {"backoff", "sleep"}
             => /\ PublishedIsCurrent
                /\ Unwrap(finalFile).data["connected"] = FALSE
                /\ "error" \in DOMAIN Unwrap(finalFile).data
                /\ Some(Unwrap(finalFile).data["error"]) = tracker.state.error)
    /\ [][/\ (HandleErrStep /\ pc' # "done")
                => /\ tracker'.state.error = Some(to_string(Unwrap(err)))
                   /\ ~tracker'.state.connected
                   /\ pc' = "ws_open" /\ wsite' = "failure"
          /\ wsite = "failure" => UNCHANGED <<tracker, delay>>
          /\ pc' = "backoff" => (pc = "ws_rename" /\ wsite = "failure"
                                  /\ finalFile' = tempFile)
          /\ (pc' = "sleep" /\ pc # "sleep") => (pc = "backoff" /\ IsSome(delay'))
          /\ (pc = "sleep" /\ pc' \notin {pc, "killed"}) => pc' = "connect"]_vars

\* the sleep after a failed connection attempt runs; the file shows the
\* failure with the display string of its error
C14_Witness ==
    /\ pc = "sleep"
    /\ delay = Some(default_reconnect_interval)
    /\ Unwrap(finalFile).data["connected"] = FALSE
    /\ Unwrap(finalFile).data["error"]
          = "failed to connect to OBS at localhost:4455: timed out"

(***************************************************************************)
(* C15.  A write_state that fails during a Connected session (after the    *)
(* initial sync or after the sync of a tick) ends neither the session nor  *)
(* the daemon and is not counted as a failure: the supervisor goes on to   *)
(* the select! for the next tick.                                          *)
(***************************************************************************)
C15_PublishFailureKeepsSession ==
    [][(Publishing /\ wsite \in {"connect", "tick"} /\ ~Publishing' /\ pc' # "killed")
          => /\ pc' = "select"
             /\ session' = session
             /\ result' = "running"]_vars

(***************************************************************************)
(* C16.  Every file at the final state-file path has mode 0600: the        *)
(* temporary file has that mode before it is renamed.                      *)
(***************************************************************************)
C16_FinalFileMode0600 ==
    /\ IsSome(finalFile) => Unwrap(finalFile).mode = MODE_0600
    /\ pc = "ws_rename" => Unwrap(tempFile).mode = MODE_0600

\* a snapshot of this run is at the final path with mode 0600 while the
\* temporary file of the next publish is written and still has the mode it
\* was created with
C16_Witness ==
    /\ pc = "ws_chmod"
    /\ Unwrap(tempFile).mode = MODE_CREATE
    /\ Unwrap(tempFile).len = "full"
    /\ IsSome(finalFile)
    /\ Unwrap(finalFile).data["connected"]
    /\ Unwrap(finalFile).mode = MODE_0600

(***************************************************************************)
(* C17.  The five fetches of one sync are independent.  Whatever subset of *)
(* them fails, each dimension of the model whose fetch succeeded is what   *)
(* applying that fetch alone makes of it, each dimension whose fetch       *)
(* failed is exactly as it was before the sync, and sync_state returns Ok. *)
(***************************************************************************)
\* the parts of a tracker the fetches write
DimRecording(t) == <<t.state.recording, t.recording_started>>
DimStreaming(t) == <<t.state.streaming, t.streaming_started>>

C18_ActivityFollowsRemote ==
    call.op = "sync_state" =>
        LET before == Unwrap(call.before)
            fetched == call.arg
        IN  /\ IsSome(fetched.recording) =>
                  LET remote == Unwrap(fetched.recording).active
                      local == before.state.recording.active
                  IN  /\ tracker.state.recording.active = remote
                      /\ (~local /\ remote) => tracker.recording_started = Some(now)
                      /\ (local /\ ~remote) =>
                            /\ tracker.recording_started = None
                            /\ tracker.state.recording = RecordingIdle
                            /\ ~tracker.state.recording.paused
                            /\ tracker.state.recording.elapsed_secs = 0
                            /\ tracker.state.recording.timecode = None
                      /\ (local = remote) =>
                            tracker.recording_started = before.recording_started
            /\ IsSome(fetched.streaming) =>
                  LET remote == Unwrap(fetched.streaming).active
                      local == before.state.streaming.active
                  IN  /\ tracker.state.streaming.active = remote
                      /\ (~local /\ remote) => tracker.streaming_started = Some(now)
                      /\ (local /\ ~remote) =>
                            /\ tracker.streaming_started = None
                            /\ tracker.state.streaming = StreamingIdle
                            /\ tracker.state.streaming.elapsed_secs = 0
                            /\ tracker.state.streaming.timecode = None
                      /\ (local = remote) =>
                            tracker.streaming_started = before.streaming_started

\* a recording that had run for a second, paused, was reported stopped, and a
\* stream was reported started, by a sync later than the recording's start
C18_Witness ==
    /\ call.op = "sync_state"
    /\ Unwrap(call.before).state.recording.active
    /\ Unwrap(call.before).state.recording.paused
    /\ Unwrap(call.before).state.recording.elapsed_secs = 1
    /\ Unwrap(call.before).recording_started = Some(0)
    /\ call.arg.recording = Some([active |-> FALSE, paused |-> FALSE])
    /\ ~Unwrap(call.before).state.streaming.active
    /\ IsSome(call.arg.streaming) /\ Unwrap(call.arg.streaming).active
    /\ now = 1
    /\ tracker.state.recording = RecordingIdle
    /\ tracker.streaming_started = Some(1)

(***************************************************************************)
(* C19.  After a sync whose recording status fetch succeeded with the      *)
(* remote recording active and paused, the model's recording is active and *)
(* paused, whether or not it was active before; and if it was active, the  *)
(* timer anchor is as it was.                                              *)
(***************************************************************************)
C19_RemotePausedIsPaused ==
    (call.op = "sync_state"
        /\ call.arg.recording = Some([active |-> TRUE, paused |-> TRUE])) =>
        /\ tracker.state.recording.active
        /\ tracker.state.recording.paused
        /\ Unwrap(call.before).state.recording.active =>
              tracker.recording_started = Unwrap(call.before).recording_started

(***************************************************************************)
(* C20.  After a sync whose current-scene and scene-list fetches both      *)
(* succeeded, current_scene and scenes are exactly the fetched values, the *)
(* list in the fetched order, whatever they were before.                   *)
(***************************************************************************)
C20_ScenesOverwritten ==
    (call.op = "sync_state" /\ IsSome(call.arg.scene) /\ IsSome(call.arg.scenes)) =>
        /\ tracker.state.current_scene = Some(Unwrap(call.arg.scene))
        /\ tracker.state.scenes = Unwrap(call.arg.scenes)
        /\ SerializeObsState(tracker.state)["current_scene"] = Unwrap(call.arg.scene)
        /\ SerializeObsState(tracker.state)["scenes"] = Unwrap(call.arg.scenes)

\* the model held the scene Main of the list Main, BRB; the sync fetched the
\* scene BRB and the list BRB, Main
C20_Witness ==
    /\ call.op = "sync_state"
    /\ Unwrap(call.before).state.current_scene = Some("Main")
    /\ Unwrap(call.before).state.scenes = <<"Main", "BRB">>
    /\ call.arg.scene = Some("BRB")
    /\ call.arg.scenes = Some(<<"BRB", "Main">>)
    /\ tracker.state.current_scene = Some("BRB")
    /\ tracker.state.scenes = <<"BRB", "Main">>

(***************************************************************************)
(* C21.  After calculate_percentages on any ObsStats, whatever its         *)
(* percentage fields held, render_drop_percent is absent when              *)
(* render_total_frames is 0 and is missed/total*100 when it is positive,   *)
(* and the same holds of output_drop_percent and the output counters,      *)
(* each independently of the other.                                        *)
(***************************************************************************)
C21_PercentagesFollowTotals ==
    call.op = "calculate_percentages" =>
        LET stats == call.arg
            after == Unwrap(call.result)
        IN  /\ after.render_drop_percent =
                  IF stats.render_total_frames = 0 THEN None
                  ELSE Some(Percent(stats.render_missed_frames, stats.render_total_frames))
            /\ after.output_drop_percent =
                  IF stats.output_total_frames = 0 THEN None
                  ELSE Some(Percent(stats.output_skipped_frames, stats.output_total_frames))

(***************************************************************************)
(* C22.  format_timecode(s) is MM:SS with MM = s div 60 and SS = s mod 60, *)
(* two digits each, when s < 3600, and HH:MM:SS with HH = s div 3600 (two  *)
(* digits, more when needed), MM = (s mod 3600) div 60 and SS = s mod 60   *)
(* when s >= 3600; 0 -> 00:00, 59 -> 00:59, 60 -> 01:00, 3599 -> 59:59,    *)
(* 3600 -> 01:00:00, 3661 -> 01:01:01, 360000 -> 100:00:00.                *)
(***************************************************************************)
C22_TimecodeFormat ==
    /\ call.op = "format_timecode" =>
          LET s == call.arg
              two(n) == Digit(n \div 10) \o Digit(n % 10)
              wide(n) == IF n < 100 THEN two(n)
                         ELSE Digit(n \div 100) \o two(n % 100)
          IN  Unwrap(call.result) =
                 IF s < 3600
                 THEN two(s \div 60) \o ":" \o two(s % 60)
                 ELSE wide(s \div 3600) \o ":" \o two((s % 3600) \div 60)
                         \o ":" \o two(s % 60)
    /\ (call.op = "format_timecode" /\ call.arg = 0) => call.result = Some("00:00")
    /\ (call.op = "format_timecode" /\ call.arg = 59) => call.result = Some("00:59")
    /\ (call.op = "format_timecode" /\ call.arg = 60) => call.result = Some("01:00")
    /\ (call.op = "format_timecode" /\ call.arg = 3599) => call.result = Some("59:59")
    /\ (call.op = "format_timecode" /\ call.arg = 3600) => call.result = Some("01:00:00")
    /\ (call.op = "format_timecode" /\ call.arg = 3661) => call.result = Some("01:01:01")
    /\ (call.op = "format_timecode" /\ call.arg = 360000) => call.result = Some("100:00:00")

\* a hundred hours have been formatted
C22_Witness ==
    /\ call.op = "format_timecode"
    /\ call.arg = 360000
    /\ call.result = Some("100:00:00")

(***************************************************************************)
(* C23.  Decoding the encoding of an ObsState gives the same ObsState,     *)
(* with every optional field populated and with every optional field       *)
(* absent; an optional field that is absent has no key in the encoding.    *)
(***************************************************************************)
C23_RoundTrip ==
    call.op = "roundtrip" =>
        LET state == Unwrap(call.before)
            json == call.arg
            absent(o, obj, key) == (o = None) <=> (key \notin DOMAIN obj)
        IN  /\ Unwrap(call.result) = state
            /\ absent(state.current_scene, json, "current_scene")
            /\ absent(state.stats, json, "stats")
            /\ absent(state.error, json, "error")
            /\ absent(state.updated_at_secs, json, "updated_at_secs")
            /\ absent(state.recording.output_path, json["recording"], "output_path")
            /\ absent(state.recording.timecode, json["recording"], "timecode")
            /\ absent(state.streaming.timecode, json["streaming"], "timecode")
            /\ absent(state.streaming.bitrate_kbps, json["streaming"], "bitrate_kbps")
            /\ IsSome(state.stats) =>
                  /\ absent(Unwrap(state.stats).available_disk_mb, json["stats"],
                            "available_disk_mb")
                  /\ absent(Unwrap(state.stats).render_drop_percent, json["stats"],
                            "render_drop_percent")
                  /\ absent(Unwrap(state.stats).output_drop_percent, json["stats"],
                            "output_drop_percent")

\* the default state has been encoded, with the four keys that are always
\* written and no other, and decoded to the default state
C23_Witness ==
    /\ call.op = "roundtrip"
    /\ call.before = Some(ObsStateDisconnected)
    /\ DOMAIN call.arg = {"connected", "recording", "streaming", "scenes"}
    /\ DOMAIN call.arg["recording"] = {"active", "paused", "elapsed_secs"}
    /\ DOMAIN call.arg["streaming"] = {"active", "elapsed_secs", "reconnecting"}
    /\ call.result = Some(ObsStateDisconnected)

(***************************************************************************)
(* C24 as stated: every one-shot command, get status included, acquires    *)
(* one session and issues exactly one request on it, returning a result or *)
(* an error; when the session cannot be acquired the connection error is   *)
(* returned and no request is issued.                                      *)
(***************************************************************************)
C24_ExactlyOneRequest ==
    call.op = "send_command" =>
        LET r == Unwrap(call.result)
        IN  IF IsSome(call.arg.connect)
            THEN /\ r.requests = <<>>
                 /\ r.error = Some(ErrorConnection(Unwrap(call.arg.connect)))
                 /\ r.success = None /\ r.state = None
            ELSE /\ Len(r.requests) = 1
                 /\ IsSome(r.error) # (IsSome(r.success) \/ IsSome(r.state))

(***************************************************************************)
(* C24 as amended: every one-shot command other than get status issues     *)
(* exactly one request on its session and returns a result or the error of *)
(* that request; get status issues the reconciler's requests on its        *)
(* session (recording status, streaming status, current scene, scene list, *)
(* and the stats when show_stats is set) and returns the state; when the   *)
(* session cannot be acquired the connection error is returned and no      *)
(* request is issued.                                                      *)
(***************************************************************************)
C24_OneRequestExceptGetStatus ==
    call.op = "send_command" =>
        LET r == Unwrap(call.result)
            command == call.arg.command
        IN  CASE IsSome(call.arg.connect) ->
                    /\ r.requests = <<>>
                    /\ r.error = Some(ErrorConnection(Unwrap(call.arg.connect)))
                    /\ r.success = None /\ r.state = None
              [] call.arg.connect = None /\ command.kind = "GetStatus" ->
                    /\ Len(r.requests) = IF config.show_stats THEN 5 ELSE 4
                    /\ \A i \in 1..Len(r.requests) :
                          r.requests[i] \in {"recording_status", "streaming_status",
                                             "current_scene", "get_scenes", "get_stats"}
                    /\ IsSome(r.state) /\ r.error = None /\ r.success = None
              [] OTHER ->
                    /\ Len(r.requests) = 1
                    /\ r.state = None
                    /\ IsSome(r.error) # IsSome(r.success)
                    /\ IsSome(r.error) <=> IsSome(call.arg.reply.error)

\* C24: a get status that was answered in full, stats included
C24_Witness ==
    /\ call.op = "send_command"
    /\ call.arg.connect = None
    /\ call.arg.command.kind = "GetStatus"
    /\ config.show_stats
    /\ Len(Unwrap(call.result).requests) = 5
    /\ IsSome(Unwrap(call.result).state)
    /\ IsSome(Unwrap(Unwrap(call.result).state).stats)
    /\ Unwrap(Unwrap(call.result).state).recording.active

(***************************************************************************)
(* C25.  The first publish of run() happens before the first session-      *)
(* acquisition attempt and contains the fully-disconnected default model:  *)
(* run() goes from its start to the initial write_state and nowhere else   *)
(* (unless it fails or is killed first); while that write_state runs no    *)
(* session has been asked for and the model and the bytes written are the  *)
(* default (connected false, recording and streaming inactive, no current  *)
(* scene, empty scene list, no stats, no error); and the loop is entered   *)
(* for the first time by the rename of that snapshot to the state path.    *)
(***************************************************************************)
DefaultSnapshot(data) ==
    /\ ~data["connected"]
    /\ ~data["recording"]["active"]
    /\ ~data["streaming"]["active"]
    /\ data["scenes"] = <<>>
    /\ {"current_scene", "stats", "error"} \cap DOMAIN data = {}

C25_FirstPublishBeforeFirstConnect ==
    /\ [](wsite = "initial" =>
            /\ session = "none" /\ err = None
            /\ reconnect_attempts = 0 /\ fails_since_connect = 0
            /\ DefaultSnapshot(SerializeObsState(tracker.state))
            /\ pc \in {"ws_write", "ws_chmod", "ws_rename"} =>
                  DefaultSnapshot(Unwrap(tempFile).data))
    /\ [](pc \in {"connect", "init_sync", "select", "run_err", "backoff", "sleep"} =>
            IsSome(finalFile))
    /\ [][/\ pc = "start" /\ pc' # pc =>
                \/ pc' = "ws_open" /\ wsite' = "initial"
                \/ pc' \in {"done", "killed"}
          /\ pc' = "connect" /\ pc # "connect" =>
                \/ /\ pc = "ws_rename" /\ wsite = "initial"
                   /\ finalFile' = tempFile
                   /\ DefaultSnapshot(Unwrap(finalFile').data)
                \/ pc = "sleep" /\ fails_since_connect > 0]_vars

\* C25: the initial snapshot is published and the first connect is about to
\* be tried
C25_Witness ==
    /\ pc = "connect"
    /\ reconnect_attempts = 0
    /\ fails_since_connect = 0
    /\ session = "none"
    /\ err = None
    /\ IsSome(finalFile)
    /\ DefaultSnapshot(Unwrap(finalFile).data)
    /\ tempFile = None

(***************************************************************************)
(* C26.  Publications are strictly ordered relative to reconciliations: no *)
(* sync and no set_disconnected changes the model between the start and    *)
(* the end of a publish; the publish that follows a sync starts from the   *)
(* model that one whole sync left (every request of it applied, elapsed    *)
(* times refreshed); and the bytes in the temporary file, and those the    *)
(* rename puts at the state path, are the serialization of that model.     *)
(***************************************************************************)
C26_PublishOrderedWithSync ==
    /\ []((Publishing /\ pc # "ws_open") =>
            Unwrap(tempFile).data = SerializeObsState(tracker.state))
    /\ [][/\ Publishing => tracker' = tracker
          /\ (pc \in {"init_sync", "select"} /\ pc' = "ws_open"
                /\ wsite' \in {"connect", "tick"}) =>
                \E fetched \in Fetches :
                    tracker' = update_elapsed(
                        sync_state(IF pc = "select" THEN update_elapsed(tracker, now)
                                   ELSE tracker,
                                   fetched, now, config.show_stats).tracker, now)
          /\ (pc = "ws_rename" /\ finalFile' # finalFile) =>
                /\ finalFile' = tempFile
                /\ Unwrap(finalFile').data = SerializeObsState(tracker.state)]_vars

\* C26: the snapshot of a tick's sync, which found a recording started, is
\* about to replace the snapshot of the sync before it
C26_Witness ==
    /\ pc = "ws_rename"
    /\ wsite = "tick"
    /\ tracker.state.recording.active
    /\ Unwrap(tempFile).data = SerializeObsState(tracker.state)
    /\ IsSome(finalFile)
    /\ Unwrap(finalFile).data["connected"]
    /\ ~Unwrap(finalFile).data["recording"]["active"]

(***************************************************************************)
(* C27.  The publish operation does not itself change the recording or     *)
(* streaming activity of the model: active, paused, elapsed_secs and       *)
(* timecode are after write_state what the sync, or the connect/disconnect *)
(* step of the supervisor, that came before it left them.                  *)
(***************************************************************************)
\* the fields of the model the claim is about
Activity(t) ==
    [recording |-> [active |-> t.state.recording.active,
                    paused |-> t.state.recording.paused,
                    elapsed_secs |-> t.state.recording.elapsed_secs,
                    timecode |-> t.state.recording.timecode],
     streaming |-> [active |-> t.state.streaming.active,
                    elapsed_secs |-> t.state.streaming.elapsed_secs,
                    timecode |-> t.state.streaming.timecode]]

\* the trackers the step before a write_state can hand to it: run()'s own at
\* the start, the one a sync left, or the one set_disconnected left
HandedToPublish ==
    CASE pc = "start" -> {tracker}
      [] pc = "init_sync" ->
            {sync_state(tracker, f, now, config.show_stats).tracker : f \in Fetches}
      [] pc = "select" ->
            {sync_state(update_elapsed(tracker, now), f, now,
                        config.show_stats).tracker : f \in Fetches}
                \cup {set_disconnected(tracker, None)}
      [] pc = "run_err" ->
            {set_disconnected(tracker, Some(to_string(Unwrap(err))))}
      [] OTHER -> {tracker}

C27_PublishKeepsActivity ==
    [][/\ (pc # "ws_open" /\ pc' = "ws_open") =>
              \E t \in HandedToPublish : Activity(tracker') = Activity(t)
       /\ Publishing => Activity(tracker') = Activity(tracker)]_vars

(***************************************************************************)
(* C28.  Cancellation is cooperative at loop-iteration boundaries: once a  *)
(* tick has been selected its sync and its publish run to completion or    *)
(* fail on their own, nothing else ends them, and a signal raised during   *)
(* the tick is pending when the loop comes back to its select!, to be      *)
(* acted on in that iteration.                                             *)
(***************************************************************************)
C28_CooperativeCancellation ==
    /\ []((sigint_during = "tick" /\ pc = "select") => sig = "received")
    /\ [][(wsite = "tick" /\ pc' # pc) =>
              \/ pc' \in {"ws_write", "ws_chmod", "ws_rename"} /\ wsite' = "tick"
              \/ pc' = "select" /\ pc = "ws_rename"
              \/ pc' = "run_err" /\ Unwrap(err').kind = "Io"]_vars

(***************************************************************************)
(* C29.  The supervisor never busy-loops: an attempt to acquire a session, *)
(* other than the first, starts only when a backoff sleep ends; a sleep    *)
(* ends only in the next attempt; the delay slept is the one the Err arm   *)
(* computed for the failure before it (the slow interval when the counter  *)
(* is above the threshold, the configured interval otherwise) and it stays *)
(* the same until the sleep ends.                                          *)
(***************************************************************************)
C29_OneSleepBetweenAttempts ==
    /\ [](pc = "sleep" =>
            /\ IsSome(delay)
            /\ Unwrap(delay) \in {config.reconnect_interval_ms,
                                  SLOW_RETRY_INTERVAL_MS}
            /\ fails_since_connect > 0)
    /\ [][/\ (pc' = "connect" /\ pc # "connect") =>
                \/ pc = "sleep" /\ IsSome(delay)
                \/ pc = "ws_rename" /\ wsite = "initial"
          /\ (pc = "sleep" /\ pc' # pc) => pc' \in {"connect", "killed"}
          /\ (pc = "sleep" /\ pc' = pc) => delay' = delay
          /\ (pc' = "sleep" /\ pc # "sleep") =>
                /\ BackoffStep
                /\ delay' = Some(IF reconnect_attempts' > FAST_RETRY_THRESHOLD
                                 THEN SLOW_RETRY_INTERVAL_MS
                                 ELSE config.reconnect_interval_ms)
          /\ (pc = "run_err" /\ pc' # pc) =>
                pc' \in {"ws_open", "done", "killed"}]_vars

\* C29: the third attempt is about to start, two failures and two sleeps
\* after the first
C29_Witness ==
    /\ pc = "connect"
    /\ reconnect_attempts = 2
    /\ fails_since_connect = 2
    /\ delay = None
    /\ ~tracker.state.connected

(***************************************************************************)
(* C30.  Whenever run() returns after the run loop has started, for        *)
(* whatever reason, the snapshot at the state path has connected false:    *)
(* the state file does not go on showing connected true once the daemon    *)
(* has exited.                                                             *)
(***************************************************************************)
C30_ExitLeavesDisconnectedFile ==
    [][(pc' = "done" /\ pc # "done" /\ pc # "start" /\ wsite # "initial") =>
          /\ IsSome(finalFile')
          /\ ~Unwrap(finalFile').data["connected"]]_vars

(***************************************************************************)
(* C31.  A publish that fails, at the write of the temporary file, at the  *)
(* read of its metadata, at the change of its permissions or at the        *)
(* rename, leaves the file at the state path exactly as it was before the  *)
(* publish, content and mode, and returns the error of the step that       *)
(* failed to its caller.                                                   *)
(***************************************************************************)
\* write_state returns an error to its caller
PublishFailedStep ==
    /\ Publishing
    /\ pc' = "run_err" \/ (pc' = "done" /\ result' = "Err")

C31_FailedPublishKeepsFinalFile ==
    [][/\ (Publishing /\ pc # "ws_rename") => finalFile' = finalFile
       /\ PublishFailedStep =>
             /\ finalFile' = finalFile
             /\ IsSome(err')
             /\ Unwrap(err').kind = "Io"
             /\ Unwrap(err').context \in
                   CASE pc \in {"ws_open", "ws_write"} -> {"writing temp state file"}
                     [] pc = "ws_chmod" -> {"reading temp file metadata",
                                            "setting file permissions"}
                     [] pc = "ws_rename" -> {"renaming state file"}]_vars

\* C31: the rename of a session's failure snapshot failed: the state path
\* still holds the snapshot of the session, the temporary file the new one
C31_Witness ==
    /\ pc = "done"
    /\ result = "Err"
    /\ err = Some(ErrorIo("renaming state file", "os error"))
    /\ IsSome(tempFile)
    /\ Unwrap(tempFile).len = "full"
    /\ ~Unwrap(tempFile).data["connected"]
    /\ IsSome(finalFile)
    /\ Unwrap(finalFile).data["connected"]
    /\ Unwrap(finalFile).len = "full"
    /\ Unwrap(finalFile).mode = MODE_0600

(***************************************************************************)
(* C32.  Every snapshot the daemon publishes carries updated_at_secs, set  *)
(* to the clock when that publish starts, so with a clock that does not go *)
(* back the updated_at_secs at the state path never decreases from one     *)
(* publish to the next.                                                    *)
(***************************************************************************)
C32_UpdatedAtNeverDecreases ==
    /\ [](IsSome(finalFile) => "updated_at_secs" \in DOMAIN Unwrap(finalFile).data)
    /\ [][/\ (pc # "ws_open" /\ pc' = "ws_open") =>
                tracker'.state.updated_at_secs = Some(now)
          /\ finalFile' # finalFile =>
                /\ Unwrap(finalFile').data["updated_at_secs"] =
                      Unwrap(tracker.state.updated_at_secs)
                /\ Unwrap(finalFile').data["updated_at_secs"] <= now
                /\ IsSome(finalFile) =>
                      Unwrap(finalFile).data["updated_at_secs"] <=
                          Unwrap(finalFile').data["updated_at_secs"]]_vars

\* C32: the snapshot of a session, published after the clock moved on, is
\* about to replace the one published at the start
C32_Witness ==
    /\ pc = "ws_rename"
    /\ wsite = "connect"
    /\ now = MaxNow
    /\ Unwrap(tempFile).data["updated_at_secs"] = MaxNow
    /\ IsSome(finalFile)
    /\ Unwrap(finalFile).data["updated_at_secs"] = 0

(***************************************************************************)
(* C33.  In every snapshot the daemon publishes the timecode is derived    *)
(* from elapsed_secs: an active recording (an active stream) has a         *)
(* timecode, equal to format_timecode(elapsed_secs); an inactive one has   *)
(* elapsed_secs 0 and no timecode.                                         *)
(***************************************************************************)
\* the timecode of one activity of a snapshot is derived from its elapsed_secs
TimecodeDerived(activity) ==
    IF activity["active"]
    THEN /\ "timecode" \in DOMAIN activity
         /\ activity["timecode"] = format_timecode(activity["elapsed_secs"])
    ELSE /\ activity["elapsed_secs"] = 0
         /\ "timecode" \notin DOMAIN activity

C33_TimecodeDerivedFromElapsed ==
    /\ IsSome(finalFile) =>
          /\ TimecodeDerived(Unwrap(finalFile).data["recording"])
          /\ TimecodeDerived(Unwrap(finalFile).data["streaming"])
    /\ (Publishing /\ pc # "ws_open") =>
          /\ TimecodeDerived(Unwrap(tempFile).data["recording"])
          /\ TimecodeDerived(Unwrap(tempFile).data["streaming"])

\* C33: a recording and a stream that have run for a second are published
C33_Witness ==
    /\ pc = "select"
    /\ IsSome(finalFile)
    /\ Unwrap(finalFile).data["recording"]["active"]
    /\ Unwrap(finalFile).data["recording"]["elapsed_secs"] = 1
    /\ Unwrap(finalFile).data["recording"]["timecode"] = "00:01"
    /\ Unwrap(finalFile).data["streaming"]["active"]
    /\ Unwrap(finalFile).data["streaming"]["timecode"] = "00:01"

(***************************************************************************)
(* C34.  In every state of a StateTracker reached from new() by any        *)
(* sequence of sync_state, set_connected, set_disconnected, start/stop     *)
(* recording, pause/resume, start/stop streaming and update_elapsed, the   *)
(* recording timer anchor is set if and only if recording.active, and the  *)
(* streaming timer anchor is set if and only if streaming.active.          *)
(***************************************************************************)
C34_AnchorSetIffActive ==
    /\ IsSome(tracker.recording_started) <=> tracker.state.recording.active
    /\ IsSome(tracker.streaming_started) <=> tracker.state.streaming.active

\* C34: a recording started at time 0, paused after a second of it was counted
\* and still anchored, next to a stream that is idle and has no anchor, on a
\* tracker that was marked disconnected before the recording started
C34_Witness ==
    /\ ~tracker.state.connected
    /\ IsSome(tracker.state.error)
    /\ tracker.state.recording.active
    /\ tracker.state.recording.paused
    /\ tracker.state.recording.elapsed_secs = 1
    /\ tracker.recording_started = Some(0)
    /\ ~tracker.state.streaming.active
    /\ tracker.streaming_started = None
    /\ tracker.state.updated_at_secs = Some(MaxNow)

(***************************************************************************)
(* C35.  In every snapshot the daemon publishes, and in every model the    *)
(* status command returns, recording.paused implies recording.active.      *)
(***************************************************************************)
\* the status command returned a model
StatusReturned ==
    /\ call.op = "send_command"
    /\ call.arg.command.kind = "GetStatus"
    /\ IsSome(Unwrap(call.result).state)

C35_PausedImpliesActive ==
    /\ IsSome(finalFile) =>
          (Unwrap(finalFile).data["recording"]["paused"]
              => Unwrap(finalFile).data["recording"]["active"])
    /\ (Publishing /\ pc # "ws_open") =>
          (Unwrap(tempFile).data["recording"]["paused"]
              => Unwrap(tempFile).data["recording"]["active"])
    /\ StatusReturned =>
          (Unwrap(Unwrap(call.result).state).recording.paused
              => Unwrap(Unwrap(call.result).state).recording.active)

\* C35: a paused recording is at the state path of a daemon in its session
C35_Witness ==
    /\ pc = "select"
    /\ session = "up"
    /\ IsSome(finalFile)
    /\ Unwrap(finalFile).data["connected"]
    /\ Unwrap(finalFile).data["recording"]["paused"]
    /\ Unwrap(finalFile).data["recording"]["active"]
    /\ tracker.state.recording.paused

(***************************************************************************)
(* C36.  The model tracks a resume: after a sync whose recording status    *)
(* fetch succeeded with the remote recording active and not paused, the    *)
(* model's recording.paused is false, even if an earlier sync had set it.  *)
(***************************************************************************)
C36_ResumeTracked ==
    (call.op = "sync_state"
        /\ call.arg.recording = Some([active |-> TRUE, paused |-> FALSE])) =>
        ~tracker.state.recording.paused

(***************************************************************************)
(* C37.  set_disconnected changes only connected, error, recording,        *)
(* streaming and the two timer anchors: it leaves current_scene, scenes    *)
(* and stats exactly as they were, so a snapshot published after a         *)
(* disconnection still carries the scene data and stats of the last        *)
(* successful sync.                                                        *)
(***************************************************************************)
\* the keys of a snapshot that hold the scene data and the stats
SceneAndStatsKeys == {"current_scene", "scenes", "stats"}

\* two snapshots carry the same scene data and stats
SameSceneAndStats(a, b) ==
    \A k \in SceneAndStatsKeys :
        /\ k \in DOMAIN a <=> k \in DOMAIN b
        /\ k \in DOMAIN a => a[k] = b[k]

C37_SetDisconnectedKeepsScenesAndStats ==
    call.op = "set_disconnected" =>
        LET before == Unwrap(call.before)
        IN  /\ tracker.state.current_scene = before.state.current_scene
            /\ tracker.state.scenes = before.state.scenes
            /\ tracker.state.stats = before.state.stats
            /\ tracker.state.updated_at_secs = before.state.updated_at_secs
            /\ SameSceneAndStats(SerializeObsState(update_elapsed(tracker, now).state),
                                 SerializeObsState(before.state))

\* C37: set_disconnected with an error was called on a tracker that was
\* recording and held a scene, a scene list and stats from its sync
C37_Witness ==
    /\ call.op = "set_disconnected"
    /\ IsSome(call.arg)
    /\ Unwrap(call.before).state.connected
    /\ Unwrap(call.before).state.recording.active
    /\ Unwrap(call.before).state.current_scene = Some("Main")
    /\ Unwrap(call.before).state.scenes = <<"Main", "BRB">>
    /\ IsSome(Unwrap(call.before).state.stats)
    /\ ~tracker.state.connected
    /\ ~tracker.state.recording.active
    /\ tracker.state.current_scene = Some("Main")
    /\ tracker.state.scenes = <<"Main", "BRB">>
    /\ IsSome(tracker.state.stats)
    /\ SerializeObsState(tracker.state)["current_scene"] = "Main"

====
